---- MODULE Spec2Model ----
(***************************************************************************)
(* db-kit: the retry engine (DB.withRetry), the error taxonomy (DBError,   *)
(* WrapError, isRetriableError), connection validation and reconnection    *)
(* (DB.ValidateConnection, DB.reconnect) and the transaction executor      *)
(* (DB.WithTransaction, DB.WithTransactionIsolation), as one state machine *)
(* of a single caller using one connection handle.                         *)
(***************************************************************************)
EXTENDS Integers, Sequences, FiniteSets, TLC

(***************************************************************************)
(* Bounds of the model.                                                    *)
(***************************************************************************)
\* largest explicitly configured Config.RetryAttempts
MaxAttempts == 2
\* largest number of rows one transaction function inserts
MaxWrites == 2
\* largest number of committed rows in the table
MaxRows == 2
\* largest number of pool objects alive in the model at once
MaxPools == 3

\* how many constructor and method applications build one error value
MaxSteps == 3

\* the attempt count of the long retry runs
LongAttempts == 39

(***************************************************************************)
(* Error values.  A Go error is modelled by the features the code reads:   *)
(* nil, a raw (unclassified) error identified by a tag, or a *DBError.     *)
(***************************************************************************)
Nil == [kind |-> "nil"]

Raw(tag) == [kind |-> "raw", tag |-> tag]

\* The raw errors of the model:
\*   plain       errors.New("intentional error")
\*   phrase      errors.New("connection refused")
\*   deadline    context.DeadlineExceeded  (implements net.Error, Timeout() = true)
\*   canceled    context.Canceled
\*   netTimeout  a *net.OpError whose Timeout() is true (i/o timeout)
\*   netRefused  a *net.OpError carrying ECONNREFUSED (Timeout() = false)
\*   pq53300     a *pq.Error with code 53300 (too_many_connections)
\*   pq23505     a *pq.Error with code 23505 (unique_violation)
\*   badConn     driver.ErrBadConn
\*   sqlClosed   database/sql's "sql: database is closed"
\*   txDone      sql.ErrTxDone
RawTags ==
  {"plain", "phrase", "deadline", "canceled", "netTimeout", "netRefused",
   "pq53300", "pq23505", "badConn", "sqlClosed", "txDone"}

\* Error() of a raw error
RawText(tag) ==
  CASE tag = "plain"      -> "intentional error"
    [] tag = "phrase"     -> "connection refused"
    [] tag = "deadline"   -> "context deadline exceeded"
    [] tag = "canceled"   -> "context canceled"
    [] tag = "netTimeout" -> "read tcp: i/o timeout"
    [] tag = "netRefused" -> "dial tcp: connect: connection refused"
    [] tag = "pq53300"    -> "pq: sorry, too many clients already"
    [] tag = "pq23505"    -> "pq: duplicate key value violates unique constraint"
    [] tag = "badConn"    -> "driver: bad connection"
    [] tag = "sqlClosed"  -> "sql: database is closed"
    [] tag = "txDone"     -> "sql: transaction has already been committed or rolled back"

\* the raw error implements net.Error
IsNetError(tag) == tag \in {"deadline", "netTimeout", "netRefused"}

\* net.Error.Timeout() of the raw error
NetTimeout(tag) == tag \in {"deadline", "netTimeout"}

\* the raw error is a *net.OpError, and its Err
IsOpError(tag) == tag \in {"netTimeout", "netRefused"}

OpErrno(tag) == IF tag = "netRefused" THEN "ECONNREFUSED" ELSE "EAGAIN"

\* the raw error is a *pq.Error, and its Code
IsPqError(tag) == tag \in {"pq53300", "pq23505"}

PqCode(tag) == IF tag = "pq53300" THEN "53300" ELSE "23505"

(***************************************************************************)
(* errors.go: the category enumeration and the structured error.           *)
(***************************************************************************)
ErrCodeConnectionFailed == "CONNECTION_FAILED"
ErrCodeConnectionTimeout == "CONNECTION_TIMEOUT"
ErrCodeConnectionRefused == "CONNECTION_REFUSED"
ErrCodeAuthenticationError == "AUTHENTICATION_ERROR"
ErrCodeInvalidCredentials == "INVALID_CREDENTIALS"
ErrCodeInvalidConfig == "INVALID_CONFIG"
ErrCodeMissingConfig == "MISSING_CONFIG"
ErrCodeMigrationFailed == "MIGRATION_FAILED"
ErrCodeMigrationNotFound == "MIGRATION_NOT_FOUND"
ErrCodeMigrationConflict == "MIGRATION_CONFLICT"
ErrCodeBackupFailed == "BACKUP_FAILED"
ErrCodeRestoreFailed == "RESTORE_FAILED"
ErrCodeInvalidBackupFile == "INVALID_BACKUP_FILE"
ErrCodeQueryFailed == "QUERY_FAILED"
ErrCodeSyntaxError == "SYNTAX_ERROR"
ErrCodeConstraintViolation == "CONSTRAINT_VIOLATION"
ErrCodeInsufficientResources == "INSUFFICIENT_RESOURCES"
ErrCodeTooManyConnections == "TOO_MANY_CONNECTIONS"
ErrCodeDiskFull == "DISK_FULL"
ErrCodeRetryExhausted == "RETRY_EXHAUSTED"
ErrCodeOperationTimeout == "OPERATION_TIMEOUT"
ErrCodeTransactionBegin == "TRANSACTION_BEGIN"
ErrCodeTransactionCommit == "TRANSACTION_COMMIT"
ErrCodeTransactionRollback == "TRANSACTION_ROLLBACK"
ErrCodeTransactionFailed == "TRANSACTION_FAILED"
ErrCodeUnknown == "UNKNOWN"
ErrCodeInternal == "INTERNAL"
ErrCodeValidation == "VALIDATION"

ErrorCodes ==
  {ErrCodeConnectionFailed, ErrCodeConnectionTimeout, ErrCodeConnectionRefused,
   ErrCodeAuthenticationError, ErrCodeInvalidCredentials, ErrCodeInvalidConfig,
   ErrCodeMissingConfig, ErrCodeMigrationFailed, ErrCodeMigrationNotFound,
   ErrCodeMigrationConflict, ErrCodeBackupFailed, ErrCodeRestoreFailed,
   ErrCodeInvalidBackupFile, ErrCodeQueryFailed, ErrCodeSyntaxError,
   ErrCodeConstraintViolation, ErrCodeInsufficientResources,
   ErrCodeTooManyConnections, ErrCodeDiskFull, ErrCodeRetryExhausted,
   ErrCodeOperationTimeout, ErrCodeTransactionBegin, ErrCodeTransactionCommit,
   ErrCodeTransactionRollback, ErrCodeTransactionFailed, ErrCodeUnknown,
   ErrCodeInternal, ErrCodeValidation}

\* a variant of isErrorCodeRetriable whose switch lacks the disk-full case
isErrorCodeRetriableNoDiskFull(code) ==
  code \in {ErrCodeConnectionTimeout, ErrCodeConnectionRefused,
            ErrCodeConnectionFailed, ErrCodeInsufficientResources,
            ErrCodeTooManyConnections, ErrCodeOperationTimeout}

\* isErrorCodeRetriable: the switch over the category
isErrorCodeRetriable(code) ==
  code \in {ErrCodeConnectionTimeout, ErrCodeConnectionRefused,
            ErrCodeConnectionFailed, ErrCodeInsufficientResources,
            ErrCodeTooManyConnections, ErrCodeDiskFull, ErrCodeOperationTimeout}

\* NewDBError: Message is the list of the segments joined by ": ", Context
\* the set of <<key, value>> pairs of the map
NewDBError(code, message, underlying) ==
  [kind |-> "db", Code |-> code, Message |-> <<message>>, Operation |-> "",
   Context |-> {}, Underlying |-> underlying,
   Retriable |-> isErrorCodeRetriable(code), UserMessage |-> ""]

WithContext(e, key, value) ==
  [e EXCEPT !.Context = {p \in @ : p[1] # key} \cup {<<key, value>>}]

WithOperation(e, operation) == [e EXCEPT !.Operation = operation]

WithUserMessage(e, message) == [e EXCEPT !.UserMessage = message]

NewConnectionError(message, underlying) ==
  WithUserMessage(NewDBError(ErrCodeConnectionFailed, message, underlying),
                  "Unable to connect to the database. Please check your connection settings.")

NewMigrationError(message, underlying) ==
  WithUserMessage(NewDBError(ErrCodeMigrationFailed, message, underlying),
                  "Database migration failed. Please check the migration files and database state.")

NewBackupError(message, underlying) ==
  WithUserMessage(NewDBError(ErrCodeBackupFailed, message, underlying),
                  "Database backup failed. Please check disk space and permissions.")

NewRestoreError(message, underlying) ==
  WithUserMessage(NewDBError(ErrCodeRestoreFailed, message, underlying),
                  "Database restore failed. Please check the backup file and database permissions.")

NewConfigError(message, underlying) ==
  WithUserMessage(NewDBError(ErrCodeInvalidConfig, message, underlying),
                  "Database configuration is invalid. Please check your settings.")

NewValidationError(message, underlying) ==
  WithUserMessage(NewDBError(ErrCodeValidation, message, underlying),
                  "Input validation failed. Please check your parameters.")

\* a variant of NewRetryExhaustedError that drops the cause
NewRetryExhaustedErrorNoCause(operation, attempts, underlying) ==
  WithContext(
    WithOperation(
      NewDBError(ErrCodeRetryExhausted, "operation failed after N attempts", Nil),
      operation),
    "attempts", attempts)

NewRetryExhaustedError(operation, attempts, underlying) ==
  WithUserMessage(
    WithContext(
      WithOperation(
        NewDBError(ErrCodeRetryExhausted, "operation failed after N attempts", underlying),
        operation),
      "attempts", attempts),
    "Operation failed after multiple retry attempts. Please try again later or check your connection.")

\* DBError.Unwrap; a raw error of the model wraps nothing
Unwrap(e) == IF e.kind = "db" THEN e.Underlying ELSE Nil

\* the unwrap chain of an error, outermost first (what errors.As / errors.Is walk)
RECURSIVE Chain(_)
Chain(e) == IF e.kind = "nil" THEN << >> ELSE <<e>> \o Chain(Unwrap(e))

\* errors.As(err, &dbErr): the first *DBError of the chain, nil if none
AsDBError(err) ==
  LET ch == Chain(err)
      hits == {i \in 1..Len(ch) : ch[i].kind = "db"}
  IN IF hits = {} THEN Nil ELSE ch[CHOOSE i \in hits : \A j \in hits : i <= j]

\* a variant of DBError.Is that compares the messages as well
DBErrorIsSameMessage(e, target) ==
  LET dbErr == AsDBError(target)
  IN dbErr # Nil /\ e.Code = dbErr.Code /\ e.Message = dbErr.Message

\* DBError.Is: the category of the first *DBError of the target's chain is
\* compared with the receiver's
DBErrorIs(e, target) ==
  LET dbErr == AsDBError(target)
  IN dbErr # Nil /\ e.Code = dbErr.Code

\* errors.Is(err, target) of the standard library: some error of err's chain
\* is the target or has an Is method that accepts it
ErrorsIs(err, target) ==
  LET ch == Chain(err)
  IN \E i \in 1..Len(ch) :
       \/ ch[i] = target
       \/ ch[i].kind = "db" /\ DBErrorIs(ch[i], target)

\* a variant of WrapError without the nil check: nil is wrapped like any
\* other error
WrapErrorOfNil(err, code, operation, message) ==
  LET ch == Chain(err)
      hits == {i \in 1..Len(ch) : ch[i].kind = "db"}
  IN IF hits # {}
     THEN LET dbErr == ch[CHOOSE i \in hits : \A j \in hits : i <= j]
              withOp == IF operation # "" THEN [dbErr EXCEPT !.Operation = operation]
                        ELSE dbErr
          IN IF message # "" THEN [withOp EXCEPT !.Message = <<message>> \o @]
             ELSE withOp
     ELSE WithOperation(NewDBError(code, message, err), operation)

\* a variant of WrapError that assigns the operation even when it is empty
WrapErrorOperationAlways(err, code, operation, message) ==
  IF err.kind = "nil" THEN Nil
  ELSE LET ch == Chain(err)
           hits == {i \in 1..Len(ch) : ch[i].kind = "db"}
       IN IF hits # {}
          THEN LET dbErr == ch[CHOOSE i \in hits : \A j \in hits : i <= j]
                   withOp == [dbErr EXCEPT !.Operation = operation]
               IN IF message # "" THEN [withOp EXCEPT !.Message = <<message>> \o @]
                  ELSE withOp
          ELSE WithOperation(NewDBError(code, message, err), operation)

\* a variant of WrapError that returns a new error in place of the one it
\* enhances, without its context and user message
WrapErrorFresh(err, code, operation, message) ==
  IF err.kind = "nil" THEN Nil
  ELSE LET ch == Chain(err)
           hits == {i \in 1..Len(ch) : ch[i].kind = "db"}
       IN IF hits # {}
          THEN LET dbErr == ch[CHOOSE i \in hits : \A j \in hits : i <= j]
                   withOp == IF operation # "" THEN [dbErr EXCEPT !.Operation = operation]
                             ELSE dbErr
               IN [withOp EXCEPT !.Context = {},
                                 !.UserMessage = "",
                                 !.Message = IF message # "" THEN <<message>> \o @ ELSE @]
          ELSE WithOperation(NewDBError(code, message, err), operation)

\* a variant of WrapError that stamps the category argument on the error it
\* enhances
WrapErrorRecoded(err, code, operation, message) ==
  IF err.kind = "nil" THEN Nil
  ELSE LET ch == Chain(err)
           hits == {i \in 1..Len(ch) : ch[i].kind = "db"}
       IN IF hits # {}
          THEN LET dbErr == ch[CHOOSE i \in hits : \A j \in hits : i <= j]
                   withOp == IF operation # "" THEN [dbErr EXCEPT !.Operation = operation]
                             ELSE dbErr
               IN [withOp EXCEPT !.Code = code,
                                 !.Message = IF message # "" THEN <<message>> \o @ ELSE @]
          ELSE WithOperation(NewDBError(code, message, err), operation)

\* WrapError: nil stays nil; the first *DBError of the chain (errors.As) is
\* enhanced in place and returned; anything else is wrapped in a new DBError
WrapError(err, code, operation, message) ==
  IF err.kind = "nil" THEN Nil
  ELSE LET ch == Chain(err)
           hits == {i \in 1..Len(ch) : ch[i].kind = "db"}
       IN IF hits # {}
          THEN LET dbErr == ch[CHOOSE i \in hits : \A j \in hits : i <= j]
                   withOp == IF operation # "" THEN [dbErr EXCEPT !.Operation = operation]
                             ELSE dbErr
               IN IF message # "" THEN [withOp EXCEPT !.Message = <<message>> \o @]
                  ELSE withOp
          ELSE WithOperation(NewDBError(code, message, err), operation)

\* DBError.Error(): "[Code] Operation: Message", as the list of its parts;
\* the code keeps its underscores, the message its segments
ErrorText(e) ==
  IF e.kind = "raw" THEN <<RawText(e.tag)>>
  ELSE IF e.Operation # "" THEN <<e.Code, e.Operation>> \o e.Message
       ELSE <<e.Code>> \o e.Message

\* strings.Contains(strings.ToLower(s), msg) for one of the transient messages:
\* the texts of the model that hold one of the phrases
TransientTexts ==
  {"connection refused", "dial tcp: connect: connection refused",
   "connection reset by peer", "connection timeout", "network is unreachable",
   "temporary failure in name resolution", "server is not available",
   "database is starting up"}

HasTransientMessage(text) == \E i \in 1..Len(text) : text[i] \in TransientTexts

PqRetriableCodes ==
  {"53000", "53100", "53200", "53300", "08000", "08003", "08006", "08001", "08004"}

\* isRetriableError: the chain of checks of the transient predicate, in order
isRetriableError(err) ==
  IF err.kind = "nil" THEN FALSE
  ELSE LET ch == Chain(err)
           raws == {i \in 1..Len(ch) : ch[i].kind = "raw"}
           nets == {i \in raws : IsNetError(ch[i].tag)}
       IN IF nets # {}
          THEN NetTimeout(ch[CHOOSE i \in nets : \A j \in nets : i <= j].tag)
          ELSE \/ \E i \in raws : /\ IsOpError(ch[i].tag)
                                  /\ OpErrno(ch[i].tag) \in {"ECONNREFUSED", "ECONNRESET", "ETIMEDOUT"}
               \/ \E i \in raws : /\ IsPqError(ch[i].tag)
                                  /\ PqCode(ch[i].tag) \in PqRetriableCodes
               \/ \E i \in raws : ch[i].tag = "badConn"
               \/ \E i \in raws : ch[i].tag = "deadline"
               \/ HasTransientMessage(ErrorText(err))

\* IsRetriable: the Retriable flag of the first *DBError of the chain, the
\* transient predicate for an error that holds none
IsRetriable(err) ==
  IF err.kind = "nil" THEN FALSE
  ELSE LET ch == Chain(err)
           hits == {i \in 1..Len(ch) : ch[i].kind = "db"}
       IN IF hits # {} THEN ch[CHOOSE i \in hits : \A j \in hits : i <= j].Retriable
          ELSE isRetriableError(err)

\* GetErrorCode
GetErrorCode(err) ==
  IF err.kind = "nil" THEN ""
  ELSE LET ch == Chain(err)
           hits == {i \in 1..Len(ch) : ch[i].kind = "db"}
       IN IF hits # {} THEN ch[CHOOSE i \in hits : \A j \in hits : i <= j].Code
          ELSE ErrCodeUnknown

(***************************************************************************)
(* Configuration and the retry policy.  Durations are in milliseconds.     *)
(***************************************************************************)
DefaultAttempts == 3
DefaultDelay == 100
DefaultMaxDelay == 5000

\* Config.RetryAttempts is an int read from the caller or the environment
\* without validation: unset (0), negative, or positive
AttemptsChoices == {0 - 1} \cup (0..MaxAttempts)

\* the Configurations of the model: the retry fields all unset, or explicit
\* delays with the attempt count set, unset or negative
Configs ==
  {[RetryAttempts |-> 0, RetryDelay |-> 0, RetryMaxDelay |-> 0]}
  \cup {[RetryAttempts |-> a, RetryDelay |-> 10, RetryMaxDelay |-> 15] : a \in AttemptsChoices}

\* withRetry: the RetryConfig built from the Config, with its defaults
RetryConfigOf(c) ==
  [Attempts |-> IF c.RetryAttempts = 0 THEN DefaultAttempts ELSE c.RetryAttempts,
   Delay    |-> IF c.RetryDelay = 0 THEN DefaultDelay ELSE c.RetryDelay,
   MaxDelay |-> IF c.RetryMaxDelay = 0 THEN DefaultMaxDelay ELSE c.RetryMaxDelay]

Min(a, b) == IF a <= b THEN a ELSE b

\* float64(delay) * math.Pow(2, attempt) as far as min compares it with cap:
\* the doubling stops once the product has passed cap
RECURSIVE DelayTimesPow2(_, _, _)
DelayTimesPow2(delay, att, cap) ==
  IF att = 0 \/ delay > cap THEN delay ELSE DelayTimesPow2(2 * delay, att - 1, cap)

\* withRetry: the backoff delay after the failed attempt with index attempt,
\* while the product fits a time.Duration
BackoffDelay(rc, att) == Min(DelayTimesPow2(rc.Delay, att, rc.MaxDelay), rc.MaxDelay)

\* the product float64(delay) * 2^attempt does not fit a time.Duration, an
\* int64 of nanoseconds: delay * 10^6 * 2^attempt >= 2^63, that is
\* delay * 2^(attempt - 20) > 8796093 (2^43 / 10^6, rounded down)
DurationOverflows(delay, att) ==
  /\ att >= 20
  /\ (att >= 45 \/ delay * (2 ^ (att - 20)) > 8796093)

\* withRetry: the delays time.Duration(float64(Delay) * math.Pow(2, attempt))
\* capped by min may yield.  The conversion of a float64 that does not fit
\* int64 is implementation-dependent: the smallest int64 (written 0 - 1
\* here, a negative duration: the sleep returns at once), or the largest,
\* which min caps at MaxDelay
BackoffDelays(rc, att) ==
  IF DurationOverflows(rc.Delay, att) THEN {0 - 1, rc.MaxDelay}
  ELSE {BackoffDelay(rc, att)}

\* a variant of the loop condition that stops one attempt early
LoopContinuesOneLess(att, rc) == att < rc.Attempts - 1

\* withRetry: the loop condition, attempt < retryConfig.Attempts
LoopContinues(att, rc) == att < rc.Attempts

\* withRetry: the test that guards the sleep, attempt < retryConfig.Attempts-1
SleepsAfter(att, rc) == att < rc.Attempts - 1

\* withRetry: the decision taken on a failed attempt
RetryDecision(err) == isRetriableError(err)

(***************************************************************************)
(* State.                                                                  *)
(***************************************************************************)
VARIABLES
  config,      \* d.config: the retry fields of the Configuration
  serverUp,    \* the database server accepts connections
  pools,       \* the pool objects opened so far: [open, configured]
  d_db,        \* d.db: index in pools of the handle's active pool
  d_migrator,  \* index in pools of the pool d.Migrator is bound to
  newPool,     \* reconnect: index of the pool being installed, 0 if none
  rows,        \* number of committed (visible) rows of the table
  api,         \* the call in progress: which method of DB
  pc,          \* position of the caller in that call
  ctx,         \* the call's context: "live", "canceled" or "deadline"
  attempt,     \* withRetry: the loop index
  lastErr,     \* withRetry: lastErr
  opErr,       \* the error the operation of the current attempt returned
  result,      \* the error the call returned
  calls,       \* number of times the operation has been invoked in this call
  sleeps,      \* the delays of the backoff sleeps entered in this call
  tx,          \* the transaction object of the attempt (the closure's tx)
  fnErr,       \* what the caller's function returned in the current attempt
  panicVal,    \* the panic value the caller's function raised, "" if none
  thrown,      \* the panic value that left the call, "" if none
  rows0,       \* rows when the call began
  cancelAt,    \* where the caller was when the context was done
  ret,         \* the error the method returned to its caller
  pings,       \* ValidateConnection: no-retry pings made by the current call of it
  reconnects,  \* ValidateConnection: reconnects entered by the current call of it
  handle0,     \* ValidateConnection, WithValidation: the active pool when the
               \* call began, and whether it was open
  steady,      \* ValidateConnection, WithValidation: the server has been up
               \* and the context live ever since the call began
  health,      \* HealthCheck: the pings and queries made by the call, and
               \* what the ping and the query of the current attempt returned
  callers,     \* the concurrent callers of one handle (specification SpecConc)
  built        \* the error value under construction and the category last
               \* classified (specification SpecErr)

vars ==
  <<config, serverUp, pools, d_db, d_migrator, newPool, rows, api, pc, ctx,
    attempt, lastErr, opErr, result, calls, sleeps, tx, fnErr,
    panicVal, thrown, rows0, cancelAt, ret, pings, reconnects, handle0,
    steady, health, callers, built>>

envVars == <<config, serverUp>>

poolVars == <<pools, d_db, d_migrator, newPool>>

retryVars == <<attempt, lastErr, opErr, result, calls, sleeps>>

txVars == <<rows, tx, fnErr, panicVal, thrown>>

callVars == <<api, ctx, rows0, cancelAt>>

valVars == <<pings, reconnects>>

ghostVars == <<handle0, steady, health>>

otherVars == <<callers, built>>

restVars == <<ret, valVars, ghostVars, otherVars>>

\* everything but the error value under construction
handleVars ==
  <<config, serverUp, pools, d_db, d_migrator, newPool, rows, api, pc, ctx,
    attempt, lastErr, opErr, result, calls, sleeps, tx, fnErr, panicVal,
    thrown, rows0, cancelAt, ret, pings, reconnects, handle0, steady, health,
    callers>>

\* ctx.Err()
CtxErr(c) == IF c = "deadline" THEN Raw("deadline") ELSE Raw("canceled")

NoTx ==
  [pool |-> 0, state |-> "none", writes |-> 0, commits |-> 0, rollbacks |-> 0,
   isolation |-> FALSE, own |-> "none"]

NoHandle == [db |-> 0, open |-> FALSE]

\* no ping and no query made
NoHealth == [pings |-> 0, queries |-> 0, ping |-> "none", query |-> "none"]

\* New: the pool is open with the pool options applied, the Migrator is
\* bound to it, and no call is in progress
HandleState ==
  /\ serverUp = TRUE
  /\ pools = <<[open |-> TRUE, configured |-> TRUE]>>
  /\ d_db = 1
  /\ d_migrator = 1
  /\ newPool = 0
  /\ rows = 0
  /\ api = "none"
  /\ pc = "idle"
  /\ ctx = "live"
  /\ attempt = 0
  /\ lastErr = Nil
  /\ opErr = Nil
  /\ result = Nil
  /\ calls = 0
  /\ sleeps = << >>
  /\ tx = NoTx
  /\ fnErr = Nil
  /\ panicVal = ""
  /\ thrown = ""
  /\ rows0 = 0
  /\ cancelAt = ""
  /\ ret = Nil
  /\ pings = 0
  /\ reconnects = 0
  /\ handle0 = NoHandle
  /\ steady = FALSE
  /\ health = NoHealth

HandleInit ==
  /\ config \in Configs
  /\ HandleState

\* no application of WrapError is the last step of the build
NoWrap == [applied |-> FALSE, err |-> Nil, operation |-> "", message |-> ""]

\* no error value has been built, no category classified; wrap holds the
\* arguments of WrapError when it was the last step of the build
NoBuilt ==
  [err |-> Nil, steps |-> 0, code |-> "", retriable |-> FALSE, wrap |-> NoWrap]

Init ==
  /\ HandleInit
  /\ callers = << >>
  /\ built = NoBuilt

(***************************************************************************)
(* The environment: the server, the context, and Close.                    *)
(***************************************************************************)
InCall == pc \notin {"idle", "done", "panicked", "returned"}

\* the server stops or starts accepting connections
ServerToggle ==
  /\ serverUp' = ~serverUp
  /\ steady' = FALSE
  /\ UNCHANGED <<ret, valVars, handle0, health, otherVars, config, pc, poolVars,
                 retryVars, txVars, callVars>>

\* the place of the caller with respect to the attempts of withRetry
Place ==
  IF pc = "sleep" THEN "sleep"
  ELSE IF pc = "loop" /\ calls = 0 THEN "call"
  ELSE IF pc = "loop" /\ attempt < RetryConfigOf(config).Attempts THEN "between"
  ELSE IF pc = "loop" THEN "exit"
  ELSE "attempt"

\* the caller's context is cancelled, or its deadline passes, during the call
CtxCancel ==
  /\ InCall
  /\ ctx = "live"
  /\ ctx' \in {"canceled", "deadline"}
  /\ cancelAt' = Place
  /\ steady' = FALSE
  /\ UNCHANGED <<ret, valVars, handle0, health, otherVars, envVars, pc, poolVars,
                 retryVars, txVars, api, rows0>>

\* DB.Close: closes the active pool
Close ==
  /\ pc = "idle"
  /\ pools[d_db].open
  /\ pools' = [pools EXCEPT ![d_db].open = FALSE]
  /\ UNCHANGED <<restVars, envVars, pc, d_db, d_migrator, newPool, retryVars, txVars, callVars>>

(***************************************************************************)
(* Calls.  "withRetry" is the retry engine around an arbitrary operation;  *)
(* "WithTransaction" and "WithTransactionIsolation" pass it the            *)
(* transactional attempt.                                                  *)
(***************************************************************************)
Apis ==
  {"withRetry", "WithTransaction", "WithTransactionIsolation",
   "ValidateConnection", "WithValidation", "Ping", "HealthCheck"}

\* the methods that begin with ValidateConnection instead of withRetry
ValApis == {"ValidateConnection", "WithValidation"}

TxApis == {"WithTransaction", "WithTransactionIsolation"}

\* the operation name the transactional methods tag their errors with
TxOperation(a) ==
  IF a = "WithTransaction" THEN "with_transaction" ELSE "with_transaction_isolation"

\* a method of DB is called with a context that is live, or already done
Call ==
  /\ pc = "idle"
  /\ api' \in Apis
  /\ ctx' \in {"live", "canceled", "deadline"}
  /\ cancelAt' = IF ctx' = "live" THEN "" ELSE "call"
  /\ rows0' = rows
  /\ handle0' = IF api' \in ValApis THEN [db |-> d_db, open |-> pools[d_db].open]
                ELSE NoHandle
  /\ steady' = (api' \in ValApis /\ ctx' = "live" /\ serverUp)
  /\ pc' = IF api' \in ValApis THEN "v_ping" ELSE "loop"
  /\ UNCHANGED <<ret, valVars, health, otherVars, envVars, poolVars, retryVars, txVars>>

\* what an arbitrary operation handed to withRetry may return: nil, raw
\* errors, and structured errors of retriable and non-retriable categories
OpOutcomes ==
  {Nil, Raw("plain"), Raw("phrase"), Raw("deadline"), Raw("netRefused"),
   Raw("pq53300"), Raw("badConn"),
   NewDBError(ErrCodeConnectionRefused, "connect failed", Raw("plain")),
   NewDBError(ErrCodeConnectionTimeout, "connect timed out", Raw("netTimeout")),
   NewDBError(ErrCodeQueryFailed, "query failed", Raw("plain")),
   NewDBError(ErrCodeQueryFailed, "query failed", Raw("badConn"))}

\* Ping: what it returns when withRetry returned err
PingReturn(err) ==
  WrapError(err, ErrCodeConnectionFailed, "ping", "database ping failed")

\* WithValidation: what it returns when withRetry returned err
WithValidationReturn(err) ==
  WrapError(err, ErrCodeOperationTimeout, "with_validation",
            "operation failed after validation")

\* HealthCheck: what it returns when withRetry returned err
HealthCheckReturn(err) ==
  WrapError(err, ErrCodeConnectionFailed, "health_check", "database health check failed")

\* what the method in progress returns when its withRetry returned err; the
\* transactional methods return it as it is
MethodReturn(err) ==
  IF api = "Ping" THEN PingReturn(err)
  ELSE IF api = "HealthCheck" THEN HealthCheckReturn(err)
  ELSE IF api = "WithValidation" THEN WithValidationReturn(err)
  ELSE err

\* withRetry: the loop is left, NewRetryExhaustedError is returned
LoopExhausted ==
  /\ pc = "loop"
  /\ ~LoopContinues(attempt, RetryConfigOf(config))
  /\ result' = NewRetryExhaustedError("database operation",
                                      RetryConfigOf(config).Attempts, lastErr)
  /\ ret' = MethodReturn(result')
  /\ pc' = "done"
  /\ UNCHANGED <<valVars, ghostVars, otherVars, envVars, poolVars, attempt, lastErr, opErr, calls, sleeps,
                 txVars, callVars>>

\* withRetry: the check before the attempt finds the context done
LoopCancelled ==
  /\ pc = "loop"
  /\ LoopContinues(attempt, RetryConfigOf(config))
  /\ ctx # "live"
  /\ result' = CtxErr(ctx)
  /\ ret' = MethodReturn(result')
  /\ pc' = "done"
  /\ UNCHANGED <<valVars, ghostVars, otherVars, envVars, poolVars, attempt, lastErr, opErr, calls, sleeps,
                 txVars, callVars>>

\* a variant of InvokeOperation without the check of the context
InvokeOperationUnchecked ==
  /\ pc = "loop"
  /\ api \in {"withRetry", "WithValidation"}
  /\ LoopContinues(attempt, RetryConfigOf(config))
  /\ calls' = calls + 1
  /\ opErr' \in OpOutcomes
  /\ pc' = "afterop"
  /\ UNCHANGED <<restVars, envVars, poolVars, attempt, lastErr, result, sleeps, txVars,
                 callVars>>

\* withRetry: the check passes and operation() is invoked; an arbitrary
\* operation returns one of its outcomes
InvokeOperation ==
  /\ pc = "loop"
  /\ api \in {"withRetry", "WithValidation"}
  /\ LoopContinues(attempt, RetryConfigOf(config))
  /\ ctx = "live"
  /\ calls' = calls + 1
  /\ opErr' \in OpOutcomes
  /\ pc' = "afterop"
  /\ UNCHANGED <<restVars, envVars, poolVars, attempt, lastErr, result, sleeps, txVars,
                 callVars>>

\* withRetry: the check passes and the transactional attempt is invoked
InvokeTransaction ==
  /\ pc = "loop"
  /\ api \in TxApis
  /\ LoopContinues(attempt, RetryConfigOf(config))
  /\ ctx = "live"
  /\ calls' = calls + 1
  /\ pc' = "v_ping"
  /\ UNCHANGED <<restVars, envVars, poolVars, attempt, lastErr, opErr, result, sleeps,
                 txVars, callVars>>

\* withRetry: operation() returned nil
AfterOpSuccess ==
  /\ pc = "afterop"
  /\ opErr = Nil
  /\ result' = Nil
  /\ ret' = MethodReturn(result')
  /\ pc' = "done"
  /\ UNCHANGED <<valVars, ghostVars, otherVars, envVars, poolVars, attempt, lastErr, opErr, calls, sleeps,
                 txVars, callVars>>

\* a variant of AfterOpGiveUp that returns the error wrapped as
\* retry-exhausted
AfterOpGiveUpWrapped ==
  /\ pc = "afterop"
  /\ opErr # Nil
  /\ ~RetryDecision(opErr)
  /\ lastErr' = opErr
  /\ result' = NewRetryExhaustedError("database operation", attempt + 1, opErr)
  /\ opErr' = Nil
  /\ ret' = MethodReturn(result')
  /\ pc' = "done"
  /\ UNCHANGED <<valVars, ghostVars, otherVars, envVars, poolVars, attempt, calls, sleeps, txVars, callVars>>

\* withRetry: operation() failed and the error is not retriable
AfterOpGiveUp ==
  /\ pc = "afterop"
  /\ opErr # Nil
  /\ ~RetryDecision(opErr)
  /\ lastErr' = opErr
  /\ result' = opErr
  /\ opErr' = Nil
  /\ ret' = MethodReturn(result')
  /\ pc' = "done"
  /\ UNCHANGED <<valVars, ghostVars, otherVars, envVars, poolVars, attempt, calls, sleeps, txVars, callVars>>

\* withRetry: operation() failed retriably and attempts remain: the backoff
\* sleep is entered
AfterOpSleep ==
  /\ pc = "afterop"
  /\ opErr # Nil
  /\ RetryDecision(opErr)
  /\ SleepsAfter(attempt, RetryConfigOf(config))
  /\ lastErr' = opErr
  /\ opErr' = Nil
  /\ \E delay \in BackoffDelays(RetryConfigOf(config), attempt) :
       sleeps' = Append(sleeps, delay)
  /\ tx' = NoTx
  /\ fnErr' = Nil
  /\ pc' = "sleep"
  /\ UNCHANGED <<restVars, envVars, poolVars, attempt, result, calls, rows, panicVal,
                 thrown, callVars>>

\* withRetry: operation() failed retriably on the last attempt: no sleep
AfterOpLast ==
  /\ pc = "afterop"
  /\ opErr # Nil
  /\ RetryDecision(opErr)
  /\ ~SleepsAfter(attempt, RetryConfigOf(config))
  /\ lastErr' = opErr
  /\ opErr' = Nil
  /\ attempt' = attempt + 1
  /\ tx' = NoTx
  /\ fnErr' = Nil
  /\ pc' = "loop"
  /\ UNCHANGED <<restVars, envVars, poolVars, result, calls, sleeps, rows, panicVal,
                 thrown, callVars>>

\* withRetry: the select of the sleep takes <-ctx.Done()
SleepCancelled ==
  /\ pc = "sleep"
  /\ ctx # "live"
  /\ result' = CtxErr(ctx)
  /\ ret' = MethodReturn(result')
  /\ pc' = "done"
  /\ UNCHANGED <<valVars, ghostVars, otherVars, envVars, poolVars, attempt, lastErr, opErr, calls, sleeps,
                 txVars, callVars>>

\* withRetry: the select of the sleep takes <-time.After(delay); when the
\* context is done as well the select may take either case
SleepTimer ==
  /\ pc = "sleep"
  /\ attempt' = attempt + 1
  /\ pc' = "loop"
  /\ UNCHANGED <<restVars, envVars, poolVars, lastErr, opErr, result, calls, sleeps,
                 txVars, callVars>>

(***************************************************************************)
(* The driver as the code sees it: what a ping, a connect, a begin, a      *)
(* commit and a rollback return in the current state of the pool, the      *)
(* context and the server.                                                 *)
(***************************************************************************)
\* the errors of a dial to a server that does not accept connections
DialErrs == {Raw("netRefused"), Raw("netTimeout")}

\* d.db.PingContext(ctx)
PingResults ==
  IF ~pools[d_db].open THEN {Raw("sqlClosed")}
  ELSE IF ctx # "live" THEN {CtxErr(ctx)}
  ELSE IF ~serverUp THEN DialErrs
  ELSE {Nil}

\* sqlx.Connect("postgres", ...): opens a pool and pings it
ConnectResults == IF serverUp THEN {Nil} ELSE DialErrs

\* d.db.BeginTxx(ctx, opts)
BeginResults ==
  IF ~pools[d_db].open THEN {Raw("sqlClosed")}
  ELSE IF ctx # "live" THEN {CtxErr(ctx)}
  ELSE IF ~serverUp THEN {Raw("badConn"), Raw("netRefused")}
  ELSE {Nil}

\* tx.Commit(); sql.ErrTxDone once the function has ended the transaction
\* through the session
CommitResults ==
  IF tx.own # "none" THEN {Raw("txDone")}
  ELSE IF ctx # "live" THEN {CtxErr(ctx), Raw("txDone")}
  ELSE IF ~serverUp THEN {Raw("badConn")}
  ELSE {Nil}

\* tx.Rollback(); sql.ErrTxDone once the function has ended the transaction
\* through the session
RollbackResults ==
  IF tx.own # "none" THEN {Raw("txDone")}
  ELSE IF ctx # "live" THEN {Raw("txDone")}
  ELSE IF ~serverUp THEN {Raw("badConn")}
  ELSE {Nil}

\* withRetry: the check passes and Ping's operation, d.db.PingContext(ctx),
\* is invoked
InvokePing ==
  /\ pc = "loop"
  /\ api = "Ping"
  /\ LoopContinues(attempt, RetryConfigOf(config))
  /\ ctx = "live"
  /\ calls' = calls + 1
  /\ opErr' \in PingResults
  /\ pc' = "afterop"
  /\ UNCHANGED <<restVars, envVars, poolVars, attempt, lastErr, result, sleeps,
                 txVars, callVars>>

\* d.db.GetContext(ctx, &result, "SELECT 1")
QueryResults ==
  IF ~pools[d_db].open THEN {Raw("sqlClosed")}
  ELSE IF ctx # "live" THEN {CtxErr(ctx)}
  ELSE IF ~serverUp THEN {Raw("badConn"), Raw("netRefused")}
  ELSE {Nil}

\* HealthCheck's operation: what it returns when the ping failed with e
HealthPingError(e) ==
  WrapError(e, ErrCodeConnectionFailed, "health_check_ping", "health check ping failed")

\* HealthCheck's operation: what it returns when the query failed with e
HealthQueryError(e) ==
  WrapError(e, ErrCodeQueryFailed, "health_check_query", "health check query failed")

\* withRetry: the check passes and HealthCheck's operation is invoked; it
\* pings first, and returns the wrapped error when the ping fails
InvokeHealthCheck ==
  /\ pc = "loop"
  /\ api = "HealthCheck"
  /\ LoopContinues(attempt, RetryConfigOf(config))
  /\ ctx = "live"
  /\ calls' = calls + 1
  /\ \E e \in PingResults :
       /\ health' = [pings |-> health.pings + 1, queries |-> health.queries,
                     ping |-> IF e = Nil THEN "ok" ELSE "failed", query |-> "none"]
       /\ opErr' = IF e = Nil THEN opErr ELSE HealthPingError(e)
       /\ pc' = IF e = Nil THEN "h_query" ELSE "afterop"
  /\ UNCHANGED <<ret, valVars, handle0, steady, otherVars, envVars, poolVars, attempt,
                 lastErr, result, sleeps, txVars, callVars>>

\* a variant of HealthQuery that reports the attempt healthy whatever the
\* query returned
HealthQueryIgnored ==
  /\ pc = "h_query"
  /\ \E e \in QueryResults :
       /\ health' = [health EXCEPT !.queries = @ + 1,
                                   !.query = IF e = Nil THEN "ok" ELSE "failed"]
       /\ opErr' = Nil
  /\ pc' = "afterop"
  /\ UNCHANGED <<ret, valVars, handle0, steady, otherVars, envVars, poolVars, attempt,
                 lastErr, result, calls, sleeps, txVars, callVars>>

\* HealthCheck's operation after the ping succeeded: SELECT 1; the operation
\* returns nil, or the wrapped error of the query
HealthQuery ==
  /\ pc = "h_query"
  /\ \E e \in QueryResults :
       /\ health' = [health EXCEPT !.queries = @ + 1,
                                   !.query = IF e = Nil THEN "ok" ELSE "failed"]
       /\ opErr' = IF e = Nil THEN Nil ELSE HealthQueryError(e)
  /\ pc' = "afterop"
  /\ UNCHANGED <<ret, valVars, handle0, steady, otherVars, envVars, poolVars, attempt,
                 lastErr, result, calls, sleeps, txVars, callVars>>

(***************************************************************************)
(* ValidateConnection and reconnect, as called directly, by WithValidation *)
(* and inside the transactional attempt.                                   *)
(***************************************************************************)
\* reconnect: the error returned when sqlx.Connect fails
ReconnectError(e) ==
  WithContext(
    WithContext(
      WithContext(
        NewConnectionError("failed to re-establish database connection", e),
        "host", "host"),
      "port", "port"),
    "database", "database")

\* ValidateConnection: the error returned when reconnect fails
ValidateReconnectError(e) ==
  WithOperation(NewConnectionError("failed to reconnect to database", ReconnectError(e)),
                "validate_connection")

\* ValidateConnection: the error returned when the ping after reconnect fails
ValidatePingError(e) ==
  WithOperation(NewConnectionError("database still unreachable after reconnection", e),
                "validate_connection")

\* WithTransaction: the error returned when ValidateConnection fails
TxValidationError(e) ==
  WrapError(e, ErrCodeConnectionFailed, TxOperation(api),
            "connection validation failed before transaction")

\* WithTransaction: the error returned when BeginTxx fails
TxBeginError(e) ==
  WrapError(e, ErrCodeTransactionBegin, TxOperation(api),
            IF api = "WithTransaction" THEN "failed to begin transaction"
            ELSE "failed to begin transaction with isolation level")

\* WithTransaction: the error returned when the caller's function fails
TxFailedError(e) ==
  WrapError(e, ErrCodeTransactionFailed, TxOperation(api), "transaction function failed")

\* a variant of TxCommitError that reports the failure of Commit as
\* transaction-failed
TxCommitErrorAsFailed(e) ==
  WrapError(e, ErrCodeTransactionFailed, TxOperation(api), "failed to commit transaction")

\* WithTransaction: the error returned when Commit fails
TxCommitError(e) ==
  WrapError(e, ErrCodeTransactionCommit, TxOperation(api), "failed to commit transaction")

\* a variant of ValidationEnds in which WithValidation goes on to its
\* operation whatever ValidateConnection returned
ValidationEndsIgnored(err, p) ==
  IF api \in TxApis
  THEN /\ opErr' = IF err = Nil THEN Nil ELSE TxValidationError(err)
       /\ pc' = IF err = Nil THEN "begin" ELSE "afterop"
       /\ pings' = 0
       /\ reconnects' = 0
       /\ UNCHANGED ret
  ELSE IF api = "WithValidation"
  THEN /\ pc' = "loop"
       /\ pings' = 0
       /\ reconnects' = 0
       /\ UNCHANGED <<ret, opErr>>
  ELSE /\ ret' = err
       /\ pc' = "returned"
       /\ pings' = p
       /\ UNCHANGED <<opErr, reconnects>>

\* WithValidation: the error returned when ValidateConnection fails
WithValidationError(e) ==
  WrapError(e, ErrCodeConnectionFailed, "with_validation", "connection validation failed")

\* ValidateConnection has made its p-th ping and returns err to the method
\* in progress: the transactional attempt begins the transaction, or returns
\* the wrapped error to withRetry; WithValidation hands its operation to
\* withRetry, or returns the wrapped error; a direct call returns err
ValidationEnds(err, p) ==
  IF api \in TxApis
  THEN /\ opErr' = IF err = Nil THEN Nil ELSE TxValidationError(err)
       /\ pc' = IF err = Nil THEN "begin" ELSE "afterop"
       /\ pings' = 0
       /\ reconnects' = 0
       /\ UNCHANGED ret
  ELSE IF api = "WithValidation"
  THEN /\ ret' = IF err = Nil THEN Nil ELSE WithValidationError(err)
       /\ pc' = IF err = Nil THEN "loop" ELSE "returned"
       /\ pings' = IF err = Nil THEN 0 ELSE p
       /\ reconnects' = IF err = Nil THEN 0 ELSE reconnects
       /\ UNCHANGED opErr
  ELSE /\ ret' = err
       /\ pc' = "returned"
       /\ pings' = p
       /\ UNCHANGED <<opErr, reconnects>>

\* ValidateConnection: the first PingNoRetry succeeds
ValidatePingOk ==
  /\ pc = "v_ping"
  /\ Nil \in PingResults
  /\ ValidationEnds(Nil, pings + 1)
  /\ UNCHANGED <<ghostVars, otherVars, envVars, poolVars, attempt, lastErr,
                 result, calls, sleeps, txVars, callVars>>

\* ValidateConnection: the first PingNoRetry fails (the error is only
\* logged), reconnect is entered
ValidatePingFail ==
  /\ pc = "v_ping"
  /\ PingResults \ {Nil} # {}
  /\ pings' = pings + 1
  /\ reconnects' = reconnects + 1
  /\ pc' = "v_close"
  /\ UNCHANGED <<ret, ghostVars, otherVars, envVars, poolVars, retryVars,
                 txVars, callVars>>

\* a variant of ReconnectClose that leaves the existing pool open
ReconnectCloseSkipped ==
  /\ pc = "v_close"
  /\ pc' = "v_connect"
  /\ UNCHANGED <<restVars, envVars, poolVars, retryVars, txVars, callVars>>

\* reconnect: d.db.Close() on the existing pool
ReconnectClose ==
  /\ pc = "v_close"
  /\ pools' = [pools EXCEPT ![d_db].open = FALSE]
  /\ pc' = "v_connect"
  /\ UNCHANGED <<restVars, envVars, d_db, d_migrator, newPool, retryVars, txVars, callVars>>

\* reconnect: sqlx.Connect fails; ValidateConnection returns the error
ReconnectConnectFail ==
  /\ pc = "v_connect"
  /\ \E e \in ConnectResults \ {Nil} :
       ValidationEnds(ValidateReconnectError(e), pings)
  /\ UNCHANGED <<ghostVars, otherVars, envVars, poolVars, attempt, lastErr,
                 result, calls, sleeps, txVars, callVars>>

\* reconnect: sqlx.Connect succeeds and the pool options are applied to the
\* new pool, which only this caller holds
ReconnectConnect ==
  /\ pc = "v_connect"
  /\ Nil \in ConnectResults
  /\ Len(pools) < MaxPools
  /\ pools' = Append(pools, [open |-> TRUE, configured |-> TRUE])
  /\ newPool' = Len(pools) + 1
  /\ pc' = "v_install"
  /\ UNCHANGED <<restVars, envVars, d_db, d_migrator, retryVars, txVars, callVars>>

\* a variant of ReconnectInstallDB that leaves d.db as it is
ReconnectInstallDBSkipped ==
  /\ pc = "v_install"
  /\ pc' = "v_migrator"
  /\ UNCHANGED <<restVars, envVars, poolVars, retryVars, txVars, callVars>>

\* reconnect: d.db = sqlxConn
ReconnectInstallDB ==
  /\ pc = "v_install"
  /\ d_db' = newPool
  /\ pc' = "v_migrator"
  /\ UNCHANGED <<restVars, envVars, pools, d_migrator, newPool, retryVars, txVars, callVars>>

\* reconnect: d.Migrator = NewGooseMigrator(sqlxConn, ...)
ReconnectInstallMigrator ==
  /\ pc = "v_migrator"
  /\ d_migrator' = newPool
  /\ newPool' = 0
  /\ pc' = "v_ping2"
  /\ UNCHANGED <<restVars, envVars, pools, d_db, retryVars, txVars, callVars>>

\* ValidateConnection: the ping after reconnect succeeds
ValidatePing2Ok ==
  /\ pc = "v_ping2"
  /\ Nil \in PingResults
  /\ ValidationEnds(Nil, pings + 1)
  /\ UNCHANGED <<ghostVars, otherVars, envVars, poolVars, attempt, lastErr,
                 result, calls, sleeps, txVars, callVars>>

\* a variant of ValidatePing2Fail that reconnects once more
ValidatePing2FailReconnects ==
  /\ pc = "v_ping2"
  /\ PingResults \ {Nil} # {}
  /\ pings' = pings + 1
  /\ reconnects' = reconnects + 1
  /\ pc' = "v_close"
  /\ UNCHANGED <<ret, ghostVars, otherVars, envVars, poolVars, retryVars,
                 txVars, callVars>>

\* ValidateConnection: the ping after reconnect fails; ValidateConnection
\* returns the error
ValidatePing2Fail ==
  /\ pc = "v_ping2"
  /\ \E e \in PingResults \ {Nil} :
       ValidationEnds(ValidatePingError(e), pings + 1)
  /\ UNCHANGED <<ghostVars, otherVars, envVars, poolVars, attempt, lastErr,
                 result, calls, sleeps, txVars, callVars>>

(***************************************************************************)
(* The transactional attempt: begin, the caller's function, commit or      *)
(* rollback, and the deferred recover.                                     *)
(***************************************************************************)
\* Transaction.Exec: the error returned when tx.Exec fails
ExecError(e) ==
  WithContext(
    WrapError(e, ErrCodeQueryFailed, "transaction_exec",
              "failed to execute query in transaction"),
    "query", "INSERT")

\* what the caller's function may return: nil, raw errors of its own, the
\* error of a failed session method, or the error of the context once done
FnReturns ==
  {Nil, Raw("plain"), Raw("phrase"), Raw("deadline"),
   ExecError(Raw("pq23505")), ExecError(Raw("badConn"))}
  \cup (IF ctx # "live" THEN {CtxErr(ctx)} ELSE {})

\* BeginTxx succeeds: a new transaction object on the active pool
TxBegin ==
  /\ pc = "begin"
  /\ Nil \in BeginResults
  /\ tx' = [pool |-> d_db, state |-> "open", writes |-> 0, commits |-> 0,
            rollbacks |-> 0, isolation |-> (api = "WithTransactionIsolation"),
            own |-> "none"]
  /\ pc' = "fn"
  /\ UNCHANGED <<restVars, envVars, poolVars, retryVars, rows, fnErr, panicVal, thrown,
                 callVars>>

\* BeginTxx fails: the attempt returns the error as transaction-begin
TxBeginFail ==
  /\ pc = "begin"
  /\ \E e \in BeginResults \ {Nil} : opErr' = TxBeginError(e)
  /\ pc' = "afterop"
  /\ UNCHANGED <<restVars, envVars, poolVars, attempt, lastErr, result, calls, sleeps,
                 txVars, callVars>>

\* a variant of FnReturn that goes on to Commit whatever the function
\* returned
FnReturnCommits ==
  /\ pc = "fn"
  /\ \E n \in 0..MaxWrites :
       /\ rows + n <= MaxRows
       /\ tx' = [tx EXCEPT !.writes = n]
  /\ fnErr' \in FnReturns
  /\ pc' = "commit"
  /\ UNCHANGED <<restVars, envVars, poolVars, retryVars, rows, panicVal, thrown, callVars>>

\* fn(transaction) inserts some rows through the session and returns
FnReturn ==
  /\ pc = "fn"
  /\ \E n \in 0..MaxWrites :
       /\ rows + n <= MaxRows
       /\ tx' = [tx EXCEPT !.writes = n]
  /\ fnErr' \in FnReturns
  /\ pc' = IF fnErr' = Nil THEN "commit" ELSE "rollback"
  /\ UNCHANGED <<restVars, envVars, poolVars, retryVars, rows, panicVal, thrown, callVars>>

\* fn(transaction) inserts some rows through the session and panics
FnPanic ==
  /\ pc = "fn"
  /\ \E n \in 0..MaxWrites :
       /\ rows + n <= MaxRows
       /\ tx' = [tx EXCEPT !.writes = n]
  /\ panicVal' = "test panic"
  /\ pc' = "panic_rollback"
  /\ UNCHANGED <<restVars, envVars, poolVars, retryVars, rows, fnErr, thrown, callVars>>

\* the state of a transaction object after tx.Rollback() returned r
AfterRollback(t, r) ==
  [t EXCEPT !.rollbacks = @ + 1,
            !.state = IF r = Nil THEN "rolledback" ELSE "rollback_failed"]

\* the state of a transaction object after tx.Commit() returned r
AfterCommit(t, r) ==
  [t EXCEPT !.commits = @ + 1,
            !.state = IF r = Nil THEN "committed" ELSE "commit_failed"]

\* a variant of TxRollback that returns the function's error without calling
\* tx.Rollback()
TxRollbackSkipped ==
  /\ pc = "rollback"
  /\ opErr' = TxFailedError(fnErr)
  /\ pc' = "afterop"
  /\ UNCHANGED <<restVars, envVars, poolVars, attempt, lastErr, result, calls, sleeps,
                 txVars, callVars>>

\* a variant of TxRollback that returns the error of a failed Rollback in
\* place of the function's
TxRollbackMasks ==
  /\ pc = "rollback"
  /\ \E r \in RollbackResults :
       /\ tx' = AfterRollback(tx, r)
       /\ opErr' = TxFailedError(IF r = Nil THEN fnErr ELSE r)
  /\ pc' = "afterop"
  /\ UNCHANGED <<restVars, envVars, poolVars, attempt, lastErr, result, calls, sleeps,
                 rows, fnErr, panicVal, thrown, callVars>>

\* fn returned an error: tx.Rollback(), whose failure is only logged, and
\* the function's error is returned as transaction-failed
TxRollback ==
  /\ pc = "rollback"
  /\ \E r \in RollbackResults : tx' = AfterRollback(tx, r)
  /\ opErr' = TxFailedError(fnErr)
  /\ pc' = "afterop"
  /\ UNCHANGED <<restVars, envVars, poolVars, attempt, lastErr, result, calls, sleeps,
                 rows, fnErr, panicVal, thrown, callVars>>

\* a variant of TxCommit in which a rollback is issued on the committed
\* transaction as well (an unconditional deferred rollback)
TxCommitThenRollback ==
  /\ pc = "commit"
  /\ Nil \in CommitResults
  /\ tx' = [AfterCommit(tx, Nil) EXCEPT !.rollbacks = @ + 1]
  /\ rows' = rows + tx.writes
  /\ opErr' = Nil
  /\ pc' = "afterop"
  /\ UNCHANGED <<restVars, envVars, poolVars, attempt, lastErr, result, calls, sleeps,
                 fnErr, panicVal, thrown, callVars>>

\* fn returned nil: tx.Commit() succeeds, the rows become visible
TxCommit ==
  /\ pc = "commit"
  /\ Nil \in CommitResults
  /\ tx' = AfterCommit(tx, Nil)
  /\ rows' = rows + tx.writes
  /\ opErr' = Nil
  /\ pc' = "afterop"
  /\ UNCHANGED <<restVars, envVars, poolVars, attempt, lastErr, result, calls, sleeps,
                 fnErr, panicVal, thrown, callVars>>

\* a variant of TxCommitFail that calls tx.Rollback() after the failed
\* Commit
TxCommitFailRollsBack ==
  /\ pc = "commit"
  /\ \E e \in CommitResults \ {Nil} :
       /\ tx' = [AfterCommit(tx, e) EXCEPT !.rollbacks = @ + 1]
       /\ opErr' = TxCommitError(e)
  /\ pc' = "afterop"
  /\ UNCHANGED <<restVars, envVars, poolVars, attempt, lastErr, result, calls, sleeps,
                 rows, fnErr, panicVal, thrown, callVars>>

\* fn returned nil: tx.Commit() fails, returned as transaction-commit
TxCommitFail ==
  /\ pc = "commit"
  /\ \E e \in CommitResults \ {Nil} :
       /\ tx' = AfterCommit(tx, e)
       /\ opErr' = TxCommitError(e)
  /\ pc' = "afterop"
  /\ UNCHANGED <<restVars, envVars, poolVars, attempt, lastErr, result, calls, sleeps,
                 rows, fnErr, panicVal, thrown, callVars>>

\* a variant of TxPanicRollback that recovers the panic, rolls back and
\* returns it as a transaction-failed error instead of panicking again
TxPanicRecovered ==
  /\ pc = "panic_rollback"
  /\ \E r \in RollbackResults : tx' = AfterRollback(tx, r)
  /\ opErr' = TxFailedError(Raw("plain"))
  /\ pc' = "afterop"
  /\ UNCHANGED <<restVars, envVars, poolVars, attempt, lastErr, result, calls, sleeps,
                 rows, fnErr, panicVal, thrown, callVars>>

\* the deferred function recovers the panic, calls tx.Rollback(), whose
\* failure is only logged, and panics again with the recovered value;
\* withRetry does not recover, so the panic leaves the call
TxPanicRollback ==
  /\ pc = "panic_rollback"
  /\ \E r \in RollbackResults : tx' = AfterRollback(tx, r)
  /\ thrown' = panicVal
  /\ pc' = "panicked"
  /\ UNCHANGED <<restVars, envVars, poolVars, retryVars, rows, fnErr, panicVal, callVars>>

(***************************************************************************)
(* The call has returned (or panicked); the caller may make another one.   *)
(* Closed pool objects nothing refers to any more are dropped.             *)
(***************************************************************************)
Kept == {i \in 1..Len(pools) : pools[i].open \/ i = d_db \/ i = d_migrator}

Rank(i) == Cardinality({j \in Kept : j <= i})

Return ==
  /\ pc \in {"done", "panicked", "returned"}
  /\ pools' = [k \in 1..Cardinality(Kept) |-> pools[CHOOSE i \in Kept : Rank(i) = k]]
  /\ d_db' = Rank(d_db)
  /\ d_migrator' = Rank(d_migrator)
  /\ newPool' = 0
  /\ api' = "none"
  /\ pc' = "idle"
  /\ ctx' = "live"
  /\ attempt' = 0
  /\ lastErr' = Nil
  /\ opErr' = Nil
  /\ result' = Nil
  /\ calls' = 0
  /\ sleeps' = << >>
  /\ tx' = NoTx
  /\ fnErr' = Nil
  /\ panicVal' = ""
  /\ thrown' = ""
  /\ rows0' = 0
  /\ cancelAt' = ""
  /\ ret' = Nil
  /\ pings' = 0
  /\ reconnects' = 0
  /\ handle0' = NoHandle
  /\ steady' = FALSE
  /\ health' = NoHealth
  /\ UNCHANGED <<otherVars, config, serverUp, rows>>

Next ==
  \/ ServerToggle
  \/ CtxCancel
  \/ Close
  \/ Call
  \/ LoopExhausted
  \/ LoopCancelled
  \/ InvokeOperation
  \/ InvokePing
  \/ InvokeHealthCheck
  \/ HealthQuery
  \/ InvokeTransaction
  \/ AfterOpSuccess
  \/ AfterOpGiveUp
  \/ AfterOpSleep
  \/ AfterOpLast
  \/ SleepCancelled
  \/ SleepTimer
  \/ ValidatePingOk
  \/ ValidatePingFail
  \/ ReconnectClose
  \/ ReconnectConnectFail
  \/ ReconnectConnect
  \/ ReconnectInstallDB
  \/ ReconnectInstallMigrator
  \/ ValidatePing2Ok
  \/ ValidatePing2Fail
  \/ TxBegin
  \/ TxBeginFail
  \/ FnReturn
  \/ FnPanic
  \/ TxRollback
  \/ TxCommit
  \/ TxCommitFail
  \/ TxPanicRollback
  \/ Return

Spec == Init /\ [][Next]_vars

(***************************************************************************)
(* Properties of the transactional methods.                                *)
(***************************************************************************)
\* C1: when the caller's function returned nil and the commit succeeded, the
\* transaction of that attempt has been committed exactly once and never
\* rolled back, the rows the function wrote are visible (the table holds the
\* rows it held when the call began plus the rows written), the attempt ends
\* the call, and the call returns nil.
C1_CommitOnSuccess ==
  (api \in TxApis /\ tx.state = "committed") =>
    /\ tx.commits = 1
    /\ tx.rollbacks = 0
    /\ rows = rows0 + tx.writes
    /\ pc \in {"afterop", "done"}
    /\ (pc = "afterop" => opErr = Nil)
    /\ (pc = "done" => result = Nil)

\* a call of WithTransactionIsolation has returned nil after its function
\* wrote rows and the commit succeeded
C1_Witness ==
  /\ pc = "done"
  /\ api = "WithTransactionIsolation"
  /\ tx.state = "committed"
  /\ tx.isolation
  /\ tx.writes >= 1
  /\ rows = rows0 + tx.writes
  /\ result = Nil

C3_PanicPropagates ==
  (panicVal # "") =>
    /\ pc \in {"panic_rollback", "panicked"}
    /\ result = Nil
    /\ opErr = Nil
    /\ tx.commits = 0
    /\ rows = rows0
    /\ (pc = "panic_rollback" => tx.rollbacks = 0 /\ thrown = "")
    /\ (pc = "panicked" => tx.rollbacks = 1 /\ thrown = panicVal)

\* the panic of a function that wrote rows has left the call although the
\* rollback failed
C3_Witness ==
  /\ pc = "panicked"
  /\ api \in TxApis
  /\ tx.state = "rollback_failed"
  /\ tx.writes >= 1
  /\ thrown = "test panic"
  /\ calls = 1

(***************************************************************************)
(* Properties of the retry engine.  "Fails retriably" is read as: the      *)
(* error passes the transient check the engine consults; how structured    *)
(* errors are classified is the subject of C9 and C10.                     *)
(***************************************************************************)
\* C4: when the operation succeeds on an attempt (after retriable failures
\* on the attempts before it), it is not invoked again and the call returns
\* nil, nil being returned in no other case; and as long as attempts remain
\* and the context is not cancelled, a retriable failure does not end the
\* call, so that the k-th invocation does take place.  An operation that
\* succeeds at once is invoked exactly once.
C4_SucceedsAfterRetries ==
  /\ [](/\ calls <= IF RetryConfigOf(config).Attempts > 0
                    THEN RetryConfigOf(config).Attempts ELSE 0
        /\ (pc = "done" /\ cancelAt = "" /\ result # Nil /\ lastErr # Nil
              /\ isRetriableError(lastErr))
             => calls = RetryConfigOf(config).Attempts)
  /\ [][/\ (pc = "afterop" /\ opErr = Nil /\ pc' # pc)
             => (pc' = "done" /\ result' = Nil /\ calls' = calls)
        /\ (pc # "done" /\ pc' = "done" /\ result' = Nil)
             => (pc = "afterop" /\ opErr = Nil)
        /\ (pc = "done" /\ pc' # "idle")
             => (pc' = "done" /\ calls' = calls /\ result' = result)]_vars

\* the operation failed with a timeout on its first attempt and succeeded on
\* the second; the call returned nil after one backoff sleep
C4_Witness ==
  /\ pc = "done"
  /\ api = "withRetry"
  /\ cancelAt = ""
  /\ lastErr = Raw("deadline")
  /\ calls = 2
  /\ Len(sleeps) = 1
  /\ result = Nil

\* C5: an operation that fails with a non-retriable error (one that neither
\* the transient check nor the category calls retriable) is not invoked
\* again: the call returns that very error, unchanged, with no backoff sleep
\* after the failure; when the failure is the first attempt's the operation
\* has been invoked exactly once and no sleep has been taken at all.
C5_NonRetriableOnce ==
  /\ [][(pc = "afterop" /\ opErr # Nil /\ ~isRetriableError(opErr)
          /\ ~IsRetriable(opErr) /\ pc' # pc)
         => (pc' = "done" /\ result' = opErr /\ calls' = calls
             /\ sleeps' = sleeps /\ Len(sleeps) = calls - 1)]_vars
  /\ [][(pc = "done" /\ pc' # "idle")
         => (pc' = "done" /\ calls' = calls /\ sleeps' = sleeps
             /\ result' = result)]_vars

\* the operation failed with a plain error on its first attempt although
\* attempts remained; the call returned it after one invocation and no sleep
C5_Witness ==
  /\ pc = "done"
  /\ api = "withRetry"
  /\ RetryConfigOf(config).Attempts >= 2
  /\ calls = 1
  /\ sleeps = << >>
  /\ result = Raw("plain")

\* C6: when every attempt of the operation failed retriably and the context
\* was never cancelled, the operation has been invoked exactly N times, N
\* the effective attempt count, and the call returns a retry-exhausted error
\* whose context records attempts = N and whose cause is the error of the
\* last attempt.
C6_RetryExhausted ==
  /\ []((pc = "done" /\ cancelAt = "" /\ calls >= 1 /\ result # Nil
          /\ lastErr # Nil /\ isRetriableError(lastErr))
         => /\ calls = RetryConfigOf(config).Attempts
            /\ result.kind = "db"
            /\ result.Code = ErrCodeRetryExhausted
            /\ <<"attempts", RetryConfigOf(config).Attempts>> \in result.Context
            /\ result.Underlying = lastErr)
  /\ [][(pc = "afterop" /\ opErr # Nil /\ pc' # pc) => lastErr' = opErr]_vars

\* with the default of three attempts the operation failed retriably three
\* times; the call returned retry-exhausted wrapping the last error
C6_Witness ==
  /\ pc = "done"
  /\ api = "withRetry"
  /\ config.RetryAttempts = 0
  /\ cancelAt = ""
  /\ calls = DefaultAttempts
  /\ Len(sleeps) = DefaultAttempts - 1
  /\ result.kind = "db"
  /\ result.Code = ErrCodeRetryExhausted
  /\ result.Underlying = Raw("pq53300")

\* C7: when the context is already cancelled at the time of the call, the
\* operation is never invoked and the call returns the context's
\* cancellation error.
C7_CancelledBeforeCall ==
  (pc = "done" /\ cancelAt = "call") => (calls = 0 /\ result = CtxErr(ctx))

\* C8: when the context becomes cancelled during a backoff sleep or between
\* two attempts, the call returns the context's cancellation error, and the
\* operation is never invoked while the context is done.
C8_CancelStopsRetry ==
  /\ []((pc = "done" /\ cancelAt \in {"sleep", "between"})
         => (result = CtxErr(ctx) /\ calls >= 1))
  /\ [][(ctx # "live" /\ pc' # "idle") => calls' = calls]_vars

\* the context was cancelled during the backoff sleep after the first
\* attempt; the call returned context.Canceled without a second invocation
C8_Witness ==
  /\ pc = "done"
  /\ cancelAt = "sleep"
  /\ ctx = "canceled"
  /\ calls = 1
  /\ RetryConfigOf(config).Attempts >= 2
  /\ result = Raw("canceled")

\* C9: an operation that fails with a Structured Error of a retriable
\* category while attempts remain is attempted again: such an error never is
\* what the call returns before the attempts are spent (it becomes terminal
\* only inside a retry-exhausted error).
C9_RetriableCategoryRetried ==
  (pc = "done" /\ result.kind = "db"
   /\ calls < RetryConfigOf(config).Attempts)
    => ~isErrorCodeRetriable(result.Code)

\* C10: a Structured Error of a non-retriable category is terminal on its
\* first occurrence, whatever it wraps: once the operation has failed with
\* it, the call has returned that error and the operation is not invoked
\* again.
C10_NonRetriableCategoryTerminal ==
  (lastErr.kind = "db" /\ ~isErrorCodeRetriable(lastErr.Code))
    => (pc = "done" /\ result = lastErr)

(***************************************************************************)
(* Properties of the errors the transactional methods return.              *)
(***************************************************************************)
\* C11: whenever the caller's function returned a non-nil error, of any kind,
\* the error WithTransaction returns has the transaction-failed category.
C11_FnErrorIsTransactionFailed ==
  (pc = "done" /\ api = "WithTransaction" /\ fnErr # Nil)
    => GetErrorCode(result) = ErrCodeTransactionFailed

\* C12: when the context's deadline passed during the attempt and the
\* caller's function returned context.DeadlineExceeded, WithTransaction
\* returns a Structured Error of category transaction-failed whose unwrap
\* chain reaches context.DeadlineExceeded.
C12_TimeoutIsTransactionFailed ==
  (/\ pc = "done"
   /\ api = "WithTransaction"
   /\ ctx = "deadline"
   /\ cancelAt = "attempt"
   /\ lastErr.kind = "db"
   /\ lastErr.Code = ErrCodeTransactionFailed
   /\ lastErr.Underlying = Raw("deadline"))
    => /\ result.kind = "db"
       /\ result.Code = ErrCodeTransactionFailed
       /\ \E k \in 1..Len(Chain(result)) : Chain(result)[k] = Raw("deadline")

(***************************************************************************)
(* Properties of ValidateConnection, WithValidation and Ping.              *)
(***************************************************************************)
ValidationPcs == {"v_ping", "v_close", "v_connect", "v_install", "v_migrator", "v_ping2"}

\* C13: a single ValidateConnection call on a handle whose pool was closed
\* when the call began, with the server reachable (and the context live)
\* throughout, returns nil after one reconnect; the handle's active pool is
\* then a pool opened by this call, open and configured, the old pool is
\* closed, and a ping through the handle succeeds.
C13_ReconnectsClosedPool ==
  (/\ api = "ValidateConnection"
   /\ pc = "returned"
   /\ handle0.db # 0
   /\ ~handle0.open
   /\ steady)
    => /\ ret = Nil
       /\ reconnects = 1
       /\ d_db > handle0.db
       /\ d_db = Len(pools)
       /\ pools[d_db].open
       /\ pools[d_db].configured
       /\ ~pools[handle0.db].open
       /\ PingResults = {Nil}

\* ValidateConnection returned nil on a handle whose pool had been closed,
\* after installing a new pool
C13_Witness ==
  /\ api = "ValidateConnection"
  /\ pc = "returned"
  /\ ~handle0.open
  /\ steady
  /\ ret = Nil
  /\ pings = 2
  /\ d_db # handle0.db
  /\ pools[d_db].open

\* C14: one ValidateConnection call makes at most two no-retry pings and at
\* most one reconnect; the reconnect is entered only after the first ping
\* failed and the second ping is made only after the reconnect installed a
\* new pool; when the reconnect or the second ping fails the call returns a
\* connection-failed Structured Error with operation validate_connection,
\* having reconnected once.
C14_OneReconnect ==
  /\ pings <= 2
  /\ reconnects <= 1
  /\ (pc = "v_ping" => (pings = 0 /\ reconnects = 0))
  /\ (pc \in ValidationPcs \ {"v_ping"} => (pings = 1 /\ reconnects = 1))
  /\ (api = "ValidateConnection" /\ pc = "returned") =>
       /\ (reconnects = 0 => (pings = 1 /\ ret = Nil /\ d_db = handle0.db))
       /\ (pings = 2 => (reconnects = 1 /\ d_db > handle0.db
                         /\ pools[d_db].configured))
       /\ (ret # Nil =>
             /\ reconnects = 1
             /\ ret.kind = "db"
             /\ ret.Code = ErrCodeConnectionFailed
             /\ ret.Operation = "validate_connection")

\* ValidateConnection returned the error of a failed second ping, after one
\* reconnect
C14_Witness ==
  /\ api = "ValidateConnection"
  /\ pc = "returned"
  /\ pings = 2
  /\ reconnects = 1
  /\ ret # Nil
  /\ ret.Message = <<"database still unreachable after reconnection">>

\* C17: WithValidation invokes its operation only after ValidateConnection
\* returned nil (its first ping, or its ping after a reconnect, succeeded);
\* when validation fails, at the reconnect or at the ping after it, the
\* operation has not been invoked and the call returns a Structured Error of
\* category connection-failed.
C17_ValidationFirst ==
  /\ [](api = "WithValidation" =>
          /\ (pc \in ValidationPcs => calls = 0)
          /\ (pc = "returned" =>
                /\ calls = 0
                /\ ret.kind = "db"
                /\ ret.Code = ErrCodeConnectionFailed
                /\ reconnects = 1))
  /\ [][(api = "WithValidation" /\ pc \in ValidationPcs /\ pc' = "loop")
         => (pc \in {"v_ping", "v_ping2"} /\ Nil \in PingResults)]_vars
  /\ [][(api = "WithValidation" /\ calls' > calls) => pc = "loop"]_vars

\* WithValidation returned connection-failed without invoking the operation
\* after the ping that followed the reconnect failed
C17_Witness ==
  /\ api = "WithValidation"
  /\ pc = "returned"
  /\ calls = 0
  /\ pings = 2
  /\ ret.kind = "db"
  /\ ret.Code = ErrCodeConnectionFailed
  /\ ret.Operation = "with_validation"

\* C18: whenever Ping returns a non-nil error after invoking the raw ping,
\* that error is a Structured Error of category connection-failed.
C18_PingIsConnectionFailed ==
  (api = "Ping" /\ pc = "done" /\ calls >= 1 /\ ret # Nil)
    => (ret.kind = "db" /\ ret.Code = ErrCodeConnectionFailed)

(***************************************************************************)
(* The error taxonomy on its own: error values are built by arbitrary      *)
(* sequences of the constructors, the With methods and WrapError, and      *)
(* categories are classified by isErrorCodeRetriable.                      *)
(***************************************************************************)
Messages == {"", "failed"}

Operations == {"", "op"}

ContextKeys == {"attempts", "k"}

ContextValues == {1}

\* the underlying errors handed to a constructor
Underlyings == {Nil, Raw("plain"), Raw("deadline"), Raw("phrase")}

InitErr ==
  /\ HandleInit
  /\ config.RetryAttempts = 0
  /\ config.RetryDelay = 0
  /\ callers = << >>
  /\ built = NoBuilt

\* isErrorCodeRetriable(code) is evaluated for a category
ErrClassify ==
  /\ built = NoBuilt
  /\ \E code \in ErrorCodes :
       built' = [built EXCEPT !.code = code, !.retriable = isErrorCodeRetriable(code)]
  /\ UNCHANGED handleVars

\* a build starts from a raw error
ErrRaw ==
  /\ built = NoBuilt
  /\ \E u \in Underlyings : built' = [built EXCEPT !.err = u, !.steps = @ + 1, !.wrap = NoWrap]
  /\ UNCHANGED handleVars

\* a build starts with NewDBError, for every category, around nil or a raw
\* error
ErrNew ==
  /\ built = NoBuilt
  /\ \E code \in ErrorCodes, m \in Messages, u \in Underlyings :
       built' = [built EXCEPT !.err = NewDBError(code, m, u), !.steps = @ + 1, !.wrap = NoWrap]
  /\ UNCHANGED handleVars

\* a build starts with one of the constructors of one category each
ErrNewOf ==
  /\ built = NoBuilt
  /\ \E m \in Messages, u \in Underlyings :
       \E e \in {NewConnectionError(m, u), NewMigrationError(m, u),
                  NewBackupError(m, u), NewRestoreError(m, u),
                  NewConfigError(m, u), NewValidationError(m, u),
                  NewRetryExhaustedError("op", 2, u)} :
         built' = [built EXCEPT !.err = e, !.steps = @ + 1, !.wrap = NoWrap]
  /\ UNCHANGED handleVars

\* the value built becomes the cause of a new error, as in ValidateConnection
\* (NewConnectionError around reconnect's error) and withRetry
\* (NewRetryExhaustedError around lastErr)
ErrNest ==
  /\ built.steps > 0
  /\ built.steps < MaxSteps
  /\ \E m \in Messages :
       \E e \in {NewConnectionError(m, built.err),
                  NewRetryExhaustedError("op", 2, built.err)} :
         built' = [built EXCEPT !.err = e, !.steps = @ + 1, !.wrap = NoWrap]
  /\ UNCHANGED handleVars

\* DBError.WithContext
ErrWithContext ==
  /\ built.steps < MaxSteps
  /\ built.err.kind = "db"
  /\ \E k \in ContextKeys, v \in ContextValues :
       built' = [built EXCEPT !.err = WithContext(@, k, v), !.steps = @ + 1, !.wrap = NoWrap]
  /\ UNCHANGED handleVars

\* DBError.WithOperation
ErrWithOperation ==
  /\ built.steps < MaxSteps
  /\ built.err.kind = "db"
  /\ \E o \in Operations :
       built' = [built EXCEPT !.err = WithOperation(@, o), !.steps = @ + 1, !.wrap = NoWrap]
  /\ UNCHANGED handleVars

\* DBError.WithUserMessage
ErrWithUserMessage ==
  /\ built.steps < MaxSteps
  /\ built.err.kind = "db"
  /\ \E m \in Messages :
       built' = [built EXCEPT !.err = WithUserMessage(@, m), !.steps = @ + 1, !.wrap = NoWrap]
  /\ UNCHANGED handleVars

\* WrapError, for every category argument, of the value built (nil, raw or
\* structured)
ErrWrap ==
  /\ built.steps < MaxSteps
  /\ \E code \in ErrorCodes, o \in Operations, m \in Messages :
       built' = [built EXCEPT
                   !.err = WrapError(@, code, o, m),
                   !.steps = @ + 1,
                   !.wrap = [applied |-> TRUE, err |-> built.err,
                             operation |-> o, message |-> m]]
  /\ UNCHANGED handleVars

\* the value built, or the classification, is dropped
ErrReset ==
  /\ built # NoBuilt
  /\ built' = NoBuilt
  /\ UNCHANGED handleVars

NextErr ==
  \/ ErrClassify
  \/ ErrRaw
  \/ ErrNew
  \/ ErrNewOf
  \/ ErrNest
  \/ ErrWithContext
  \/ ErrWithOperation
  \/ ErrWithUserMessage
  \/ ErrWrap
  \/ ErrReset

SpecErr == InitErr /\ [][NextErr]_vars

\* C19: the category retriability predicate is true exactly for
\* connection-failed, connection-timeout, connection-refused,
\* insufficient-resources, too-many-connections, disk-full and
\* operation-timeout, and false for every other category.
C19_RetriableCategories ==
  built.code # ""
    => (built.retriable <=>
          built.code \in {"CONNECTION_FAILED", "CONNECTION_TIMEOUT",
                          "CONNECTION_REFUSED", "INSUFFICIENT_RESOURCES",
                          "TOO_MANY_CONNECTIONS", "DISK_FULL",
                          "OPERATION_TIMEOUT"})

\* the predicate was evaluated for disk-full and answered true
C19_Witness ==
  /\ built.code = ErrCodeDiskFull
  /\ built.retriable

\* the structured errors of the chain of the value built
BuiltDBErrors ==
  LET ch == Chain(built.err)
  IN {ch[i] : i \in {j \in 1..Len(ch) : ch[j].kind = "db"}}

\* C20: for every Structured Error reachable by any sequence of the
\* constructors, WithContext, WithOperation, WithUserMessage and WrapError,
\* the Retriable flag equals the category retriability predicate applied to
\* the error's current category.
C20_RetriableMatchesCategory ==
  \A e \in BuiltDBErrors : e.Retriable = isErrorCodeRetriable(e.Code)

\* a retriable structured error that went through WrapError (operation and
\* message given) and a With method, at the end of the longest build
C20_Witness ==
  /\ built.steps = MaxSteps
  /\ built.err.kind = "db"
  /\ built.err.Retriable
  /\ built.err.Operation = "op"
  /\ Len(built.err.Message) >= 2
  /\ built.err.Context # {}

(***************************************************************************)
(* Concurrent callers of one handle.  reconnect takes no lock: its steps   *)
(* interleave with the reads of d.db other callers make in PingNoRetry and *)
(* BeginTxx.  Each caller makes calls of ValidateConnection or of          *)
(* WithTransaction with one attempt (RetryAttempts = 1), which validates   *)
(* the connection before it begins the transaction, with a live            *)
(* context.  The read of d.db that races with reconnect's store observes   *)
(* the pointer stored before or the one being stored; nothing orders the   *)
(* store after the writes that built the pool object for a reader in       *)
(* another goroutine, so what that reader sees of the object is either     *)
(* all of it or part of it.                                                *)
(***************************************************************************)
Callers == {"a", "b"}

\* the transaction object of a caller's attempt: the pool BeginTxx was called
\* on, the pool the commit or rollback went through, and how it ended
NoConcTx == [pool |-> 0, via |-> 0, state |-> "none", srv |-> FALSE]

\* a caller between calls: held is the pool its last read of d.db obtained,
\* view what that read let it see of the pool object, new the sqlxConn local
\* of reconnect, own the pools this caller stored in d.db itself, failed
\* whether the call returns an error
IdleCaller ==
  [pc |-> "idle", api |-> "none", held |-> 0, view |-> "none", new |-> 0,
   tx |-> NoConcTx, own |-> {}, failed |-> FALSE]

\* what a read of d.db by caller c lets it see of the pool object: the
\* handle New returned and the stores of the caller itself happen before the
\* read; the store of another caller's reconnect is not ordered with it
Views(c) ==
  IF d_db = 1 \/ d_db \in callers[c].own THEN {"whole"} ELSE {"whole", "partial"}

\* the variables the concurrent callers leave alone
concFrame ==
  <<config, newPool, rows, api, pc, ctx, attempt, lastErr, opErr, result,
    calls, sleeps, tx, fnErr, panicVal, thrown, rows0, cancelAt, ret, pings,
    reconnects, handle0, steady, health, built>>

InitConc ==
  /\ HandleInit
  /\ config.RetryAttempts = 1
  /\ callers = [c \in Callers |-> IdleCaller]
  /\ built = NoBuilt

\* where a caller goes when ValidateConnection returned nil: back to its
\* caller, or on to BeginTxx in the attempt of WithTransaction
ConcValidated(c) == IF callers[c].api = "WithTransaction" THEN "t_begin" ELSE "done"

\* a caller enters ValidateConnection, or WithTransaction, whose attempt
\* starts with ValidateConnection
ConcCall(c) ==
  /\ callers[c].pc = "idle"
  /\ \E a \in {"ValidateConnection", "WithTransaction"} :
       callers' = [callers EXCEPT ![c] =
                     [IdleCaller EXCEPT !.own = callers[c].own,
                                        !.api = a,
                                        !.pc = "v_ping"]]
  /\ UNCHANGED <<serverUp, poolVars, concFrame>>

\* ValidateConnection: d.PingNoRetry reads d.db and pings that pool; nil
\* ends the call, an error leads to reconnect
ConcPing(c) ==
  /\ callers[c].pc = "v_ping"
  /\ \E v \in Views(c) :
       callers' = [callers EXCEPT ![c].held = d_db,
                                  ![c].view = v,
                                  ![c].pc = IF pools[d_db].open /\ serverUp
                                            THEN ConcValidated(c) ELSE "v_close"]
  /\ UNCHANGED <<serverUp, poolVars, concFrame>>

\* reconnect: d.db.Close() on the pool d.db refers to at that moment
ConcReconnectClose(c) ==
  /\ callers[c].pc = "v_close"
  /\ pools' = [pools EXCEPT ![d_db].open = FALSE]
  /\ callers' = [callers EXCEPT ![c].pc = "v_connect"]
  /\ UNCHANGED <<serverUp, d_db, d_migrator, concFrame>>

\* reconnect: sqlx.Connect fails and reconnect returns; d.db is not assigned
ConcConnectFail(c) ==
  /\ callers[c].pc = "v_connect"
  /\ ~serverUp
  /\ callers' = [callers EXCEPT ![c].pc = "done", ![c].failed = TRUE]
  /\ UNCHANGED <<serverUp, poolVars, concFrame>>

\* reconnect: sqlx.Connect opens a new pool, held in the local sqlxConn
ConcConnect(c) ==
  /\ callers[c].pc = "v_connect"
  /\ serverUp
  /\ Len(pools) < MaxPools
  /\ pools' = Append(pools, [open |-> TRUE, configured |-> FALSE])
  /\ callers' = [callers EXCEPT ![c].new = Len(pools) + 1, ![c].pc = "v_configure"]
  /\ UNCHANGED <<serverUp, d_db, d_migrator, concFrame>>

\* reconnect: the pool options are applied to sqlxConn
ConcConfigure(c) ==
  /\ callers[c].pc = "v_configure"
  /\ pools' = [pools EXCEPT ![callers[c].new].configured = TRUE]
  /\ callers' = [callers EXCEPT ![c].pc = "v_install"]
  /\ UNCHANGED <<serverUp, d_db, d_migrator, concFrame>>

\* reconnect: d.db = sqlxConn
ConcInstallDB(c) ==
  /\ callers[c].pc = "v_install"
  /\ d_db' = callers[c].new
  /\ callers' = [callers EXCEPT ![c].pc = "v_migrator",
                                ![c].own = @ \cup {callers[c].new}]
  /\ UNCHANGED <<serverUp, pools, d_migrator, newPool, concFrame>>

\* reconnect: d.Migrator = NewGooseMigrator(sqlxConn, ...)
ConcInstallMigrator(c) ==
  /\ callers[c].pc = "v_migrator"
  /\ d_migrator' = callers[c].new
  /\ callers' = [callers EXCEPT ![c].pc = "v_ping2"]
  /\ UNCHANGED <<serverUp, pools, d_db, newPool, concFrame>>

\* ValidateConnection: the ping after the reconnect reads d.db again; nil
\* ends the validation, an error ends the call
ConcPing2(c) ==
  /\ callers[c].pc = "v_ping2"
  /\ \E v \in Views(c) :
       callers' = [callers EXCEPT ![c].held = d_db,
                                  ![c].view = v,
                                  ![c].failed = ~(pools[d_db].open /\ serverUp),
                                  ![c].pc = IF pools[d_db].open /\ serverUp
                                            THEN ConcValidated(c) ELSE "done"]
  /\ UNCHANGED <<serverUp, poolVars, concFrame>>

\* WithTransaction: d.db.BeginTxx reads d.db; on success the transaction
\* object belongs to the pool read, on failure the attempt returns
ConcBegin(c) ==
  /\ callers[c].pc = "t_begin"
  /\ \E v \in Views(c) : callers' = [callers EXCEPT
       ![c].held = d_db,
       ![c].view = v,
       ![c].tx = IF pools[d_db].open /\ serverUp
                 THEN [NoConcTx EXCEPT !.pool = d_db, !.state = "open"]
                 ELSE NoConcTx,
       ![c].failed = ~(pools[d_db].open /\ serverUp),
       ![c].pc = IF pools[d_db].open /\ serverUp THEN "t_fn" ELSE "done"]
  /\ UNCHANGED <<serverUp, poolVars, concFrame>>

\* fn(transaction) returns nil or an error
ConcFn(c) ==
  /\ callers[c].pc = "t_fn"
  /\ \E next \in {"t_commit", "t_rollback"} :
       callers' = [callers EXCEPT ![c].pc = next]
  /\ UNCHANGED <<serverUp, poolVars, concFrame>>

\* a variant of ConcCommit that commits through whatever pool d.db refers to
\* when the commit is issued
ConcCommitViaHandle(c) ==
  /\ callers[c].pc = "t_commit"
  /\ callers' = [callers EXCEPT
       ![c].tx = [@ EXCEPT !.via = d_db, !.srv = serverUp,
                           !.state = IF serverUp /\ pools[d_db].open
                                     THEN "committed" ELSE "commit_failed"],
       ![c].failed = ~(serverUp /\ pools[d_db].open),
       ![c].pc = "done"]
  /\ UNCHANGED <<serverUp, poolVars, concFrame>>

\* tx.Commit(): issued on the transaction object, whose connection stays
\* checked out of its pool whether or not that pool has been closed since
ConcCommit(c) ==
  /\ callers[c].pc = "t_commit"
  /\ callers' = [callers EXCEPT
       ![c].tx = [@ EXCEPT !.via = callers[c].tx.pool, !.srv = serverUp,
                           !.state = IF serverUp THEN "committed" ELSE "commit_failed"],
       ![c].failed = ~serverUp,
       ![c].pc = "done"]
  /\ UNCHANGED <<serverUp, poolVars, concFrame>>

\* tx.Rollback(): issued on the transaction object
ConcRollback(c) ==
  /\ callers[c].pc = "t_rollback"
  /\ callers' = [callers EXCEPT
       ![c].tx = [@ EXCEPT !.via = callers[c].tx.pool, !.srv = serverUp,
                           !.state = IF serverUp THEN "rolledback" ELSE "rollback_failed"],
       ![c].failed = TRUE,
       ![c].pc = "done"]
  /\ UNCHANGED <<serverUp, poolVars, concFrame>>

\* the call returns to the caller
ConcReturn(c) ==
  /\ callers[c].pc = "done"
  /\ callers' = [callers EXCEPT ![c] = [IdleCaller EXCEPT !.own = callers[c].own]]
  /\ UNCHANGED <<serverUp, poolVars, concFrame>>

NextConc ==
  \/ ServerToggle
  \/ \E c \in Callers : ConcCall(c)
  \/ \E c \in Callers : ConcPing(c)
  \/ \E c \in Callers : ConcReconnectClose(c)
  \/ \E c \in Callers : ConcConnectFail(c)
  \/ \E c \in Callers : ConcConnect(c)
  \/ \E c \in Callers : ConcConfigure(c)
  \/ \E c \in Callers : ConcInstallDB(c)
  \/ \E c \in Callers : ConcInstallMigrator(c)
  \/ \E c \in Callers : ConcPing2(c)
  \/ \E c \in Callers : ConcBegin(c)
  \/ \E c \in Callers : ConcFn(c)
  \/ \E c \in Callers : ConcCommit(c)
  \/ \E c \in Callers : ConcRollback(c)
  \/ \E c \in Callers : ConcReturn(c)

SpecConc == InitConc /\ [][NextConc]_vars

\* C15: at every instant, including while a reconnect runs concurrently
\* with readers, the handle references exactly one pool object, any pool a
\* reader obtains through the handle has had the pool options applied, and
\* no reader observes a missing or half-initialized pool.
C15_HandleHasOneConfiguredPool ==
  /\ d_db \in 1..Len(pools)
  /\ pools[d_db].configured
  /\ \A c \in Callers :
       callers[c].held # 0
         => /\ callers[c].held \in 1..Len(pools)
            /\ pools[callers[c].held].configured
            /\ callers[c].view = "whole"

ConcEnded == {"committed", "commit_failed", "rolledback", "rollback_failed"}

\* C16: a reconnect by one caller never redirects or cancels another
\* caller's in-flight attempt: a transaction begun on pool P is committed or
\* rolled back through the transaction object obtained from P, never through
\* a later pool, and the attempt runs to its own success or failure (its
\* commit or rollback fails only when the server is down).
C16_AttemptKeepsItsPool ==
  \A c \in Callers :
    LET t == callers[c].tx
    IN /\ t.state # "none" => t.pool \in 1..Len(pools)
       /\ t.state \in ConcEnded
            => /\ t.via = t.pool
               /\ t.srv => t.state \in {"committed", "rolledback"}

\* a caller's transaction committed although another caller's reconnect
\* closed its pool and installed a later one meanwhile
C16_Witness ==
  \E c \in Callers, w \in Callers :
    /\ c # w
    /\ callers[c].tx.state = "committed"
    /\ ~pools[callers[c].tx.pool].open
    /\ d_db # callers[c].tx.pool
    /\ callers[w].api = "ValidateConnection"
    /\ callers[w].new = d_db

\* C21: WrapError applied to a nil error returns nil for every category,
\* operation and message.
C21_WrapNilIsNil ==
  (built.wrap.applied /\ built.wrap.err = Nil) => built.err = Nil

\* WrapError was applied to nil with an operation and a message given
C21_Witness ==
  /\ built.wrap.applied
  /\ built.wrap.err = Nil
  /\ built.wrap.operation = "op"
  /\ built.wrap.message = "failed"
  /\ built.err = Nil

\* C22 as stated: WrapError applied to a Structured Error keeps the original
\* cause reachable through unwrap, sets the operation to the new one when it
\* is non-empty and keeps the old one otherwise, and yields the message
\* "<new message>: <original message>" for every new message.
C22_WrapStructuredAnyMessage ==
  (built.wrap.applied /\ built.wrap.err.kind = "db")
    => /\ built.err.kind = "db"
       /\ Unwrap(built.err) = Unwrap(built.wrap.err)
       /\ built.err.Operation = IF built.wrap.operation # "" THEN built.wrap.operation
                                ELSE built.wrap.err.Operation
       /\ built.err.Message = <<built.wrap.message>> \o built.wrap.err.Message

\* C22 as amended: the same, with the message "<new message>: <original
\* message>" for every non-empty new message and the original message kept
\* when the new message is empty.
C22_WrapStructured ==
  (built.wrap.applied /\ built.wrap.err.kind = "db")
    => /\ built.err.kind = "db"
       /\ Unwrap(built.err) = Unwrap(built.wrap.err)
       /\ built.err.Code = built.wrap.err.Code
       /\ built.err.Operation = IF built.wrap.operation # "" THEN built.wrap.operation
                                ELSE built.wrap.err.Operation
       /\ built.err.Message = IF built.wrap.message # ""
                              THEN <<built.wrap.message>> \o built.wrap.err.Message
                              ELSE built.wrap.err.Message

\* WrapError was applied, with a message and no operation, to a Structured
\* Error that had an operation and a cause
C22_Witness ==
  /\ built.wrap.applied
  /\ built.wrap.err.kind = "db"
  /\ built.wrap.err.Operation = "op"
  /\ built.wrap.err.Underlying # Nil
  /\ built.wrap.operation = ""
  /\ built.wrap.message = "failed"
  /\ built.err.Operation = "op"
  /\ Len(built.err.Message) = Len(built.wrap.err.Message) + 1

\* the categories of the targets: those the constructors of one category
\* make, and two that only NewDBError and WrapError make
MatchCodes ==
  {ErrCodeConnectionFailed, ErrCodeMigrationFailed, ErrCodeInvalidConfig,
   ErrCodeValidation, ErrCodeRetryExhausted, ErrCodeQueryFailed,
   ErrCodeTransactionFailed}

\* the Structured Errors the value built is matched against: one of each of
\* these categories, and one with a Structured Error as its cause
MatchTargets ==
  {NewDBError(code, "target", Nil) : code \in MatchCodes}
  \cup {NewRetryExhaustedError("op", 2, NewConnectionError("failed", Raw("plain")))}

\* C23 as stated: for any two Structured Errors a and b, errors.Is(a, b)
\* holds if and only if their categories are equal, and the relation is
\* symmetric.
C23_MatchIffSameCategory ==
  built.err.kind = "db"
    => \A b \in MatchTargets :
         /\ ErrorsIs(built.err, b) <=> built.err.Code = b.Code
         /\ ErrorsIs(built.err, b) <=> ErrorsIs(b, built.err)

\* C23 as amended: the match method of a Structured Error a (DBError.Is)
\* accepts a Structured Error b if and only if their categories are equal,
\* regardless of message, operation, context or cause, and that relation is
\* reflexive, symmetric and transitive; errors.Is(a, b), which walks the
\* causes of a, holds if and only if a or a Structured Error among its causes
\* has the category of b.
C23_MatchByCategory ==
  built.err.kind = "db"
    => /\ DBErrorIs(built.err, built.err)
       /\ \A b \in MatchTargets :
            /\ DBErrorIs(built.err, b) <=> built.err.Code = b.Code
            /\ DBErrorIs(built.err, b) <=> DBErrorIs(b, built.err)
            /\ DBErrorIs(built.err, b)
                 => \A c \in MatchTargets : DBErrorIs(b, c) => DBErrorIs(built.err, c)
            /\ ErrorsIs(built.err, b) <=> \E e \in BuiltDBErrors : e.Code = b.Code

\* a Structured Error with a cause, a context and an operation matches a
\* target of its category whose message, operation, context and cause differ
C23_Witness ==
  /\ built.err.kind = "db"
  /\ built.err.Underlying # Nil
  /\ built.err.Context # {}
  /\ built.err.Operation = "op"
  /\ \E b \in MatchTargets :
       /\ b.Code = built.err.Code
       /\ b.Message # built.err.Message
       /\ DBErrorIs(built.err, b)
       /\ ErrorsIs(built.err, b)

\* C26: within each attempt of a transactional call the connection is
\* validated first; a transaction is begun only if validation succeeded; the
\* caller's function is invoked only if begin succeeded; Commit is invoked
\* only if the function returned nil.  When validation fails no transaction
\* is begun and the function is not invoked in that attempt.
C26_StepOrdering ==
  /\ [](api \in TxApis =>
          /\ (pc \in ValidationPcs => (tx = NoTx /\ fnErr = Nil))
          /\ (pc = "begin" => (tx = NoTx /\ fnErr = Nil))
          /\ (pc = "fn" => (tx.state = "open" /\ tx.commits = 0 /\ tx.rollbacks = 0))
          /\ (pc = "commit" => (tx.state = "open" /\ fnErr = Nil))
          /\ (pc = "rollback" => (tx.state = "open" /\ fnErr # Nil)))
  /\ [][(api \in TxApis /\ pc # "begin" /\ pc' = "begin")
         => (pc \in {"v_ping", "v_ping2"} /\ Nil \in PingResults)]_vars
  /\ [][(api \in TxApis /\ pc # "fn" /\ pc' = "fn")
         => (pc = "begin" /\ Nil \in BeginResults /\ tx'.state = "open")]_vars
  /\ [][(api \in TxApis /\ tx'.commits > tx.commits)
         => (pc = "commit" /\ fnErr = Nil)]_vars
  /\ [][(api \in TxApis /\ pc \in ValidationPcs /\ pc' \notin ValidationPcs
           /\ pc' # "begin")
         => (pc' = "afterop" /\ tx' = NoTx /\ fnErr' = Nil
             /\ opErr'.kind = "db" /\ opErr'.Code = ErrCodeConnectionFailed)]_vars

\* the first attempt failed in validation and began no transaction; the
\* second validated, began, ran the function and committed
C26_Witness ==
  /\ api \in TxApis
  /\ calls = 2
  /\ lastErr.kind = "db"
  /\ lastErr.Code = ErrCodeConnectionFailed
  /\ tx.state = "committed"
  /\ tx.writes >= 1
  /\ fnErr = Nil

RawsOf(err) ==
  LET ch == Chain(err) IN {ch[i] : i \in {j \in 1..Len(ch) : ch[j].kind = "raw"}}

\* e is reachable from res through unwrap: a raw e is an error of the chain
\* of res; a Structured Error e, which WrapError returns enhanced, is res
\* itself with its category, cause, context and original message
ReachesError(res, e) ==
  IF e.kind = "raw" THEN \E i \in 1..Len(Chain(res)) : Chain(res)[i] = e
  ELSE /\ res.kind = "db"
       /\ res.Code = e.Code
       /\ res.Underlying = e.Underlying
       /\ res.Context = e.Context
       /\ Len(res.Message) >= Len(e.Message)
       /\ SubSeq(res.Message, Len(res.Message) - Len(e.Message) + 1, Len(res.Message))
            = e.Message

\* C28: when the caller's function returns error e and the Rollback that
\* follows fails as well, the error the attempt returns still has e
\* reachable through unwrap, and the rollback error is neither the returned
\* error nor among its causes.
C28_RollbackFailureDoesNotMask ==
  (api \in TxApis /\ pc = "afterop" /\ tx.state = "rollback_failed")
    => /\ fnErr # Nil
       /\ ReachesError(opErr, fnErr)
       /\ RawsOf(opErr) = RawsOf(fnErr)

\* the function returned a raw error, Rollback failed because the context
\* was done, and the attempt returned the function's error as
\* transaction-failed
C28_Witness ==
  /\ api \in TxApis
  /\ pc = "afterop"
  /\ tx.state = "rollback_failed"
  /\ fnErr = Raw("plain")
  /\ opErr.kind = "db"
  /\ opErr.Code = ErrCodeTransactionFailed
  /\ opErr.Underlying = Raw("plain")

\* the transaction object has been ended by the executor
TxEnded == tx.state \in {"committed", "commit_failed", "rolledback", "rollback_failed"}

\* C29: each attempt of a transactional call begins a new transaction
\* object; on every transaction object begun the executor invokes exactly
\* one of Commit or Rollback before the next attempt begins, the call
\* returns or the panic propagates; at most one transaction is open at any
\* time within one call.
C29_OneEndPerTransaction ==
  /\ [](api \in TxApis =>
          /\ (tx.state = "open" => (tx.commits = 0 /\ tx.rollbacks = 0))
          /\ (TxEnded => tx.commits + tx.rollbacks = 1)
          /\ (pc \in {"afterop", "loop", "sleep", "done", "panicked"} => tx.state # "open")
          /\ (pc \in ValidationPcs \cup {"begin"} => tx = NoTx))
  /\ [][(api \in TxApis /\ tx.state # "open" /\ tx'.state = "open")
         => (pc = "begin" /\ tx = NoTx /\ tx'.commits = 0 /\ tx'.rollbacks = 0)]_vars
  /\ [][(api \in TxApis /\ tx # NoTx /\ tx' = NoTx)
         => (TxEnded /\ tx.commits + tx.rollbacks = 1)]_vars
  /\ [][(api \in TxApis /\ tx'.commits + tx'.rollbacks > tx.commits + tx.rollbacks)
         => (tx.state = "open" /\ tx'.commits + tx'.rollbacks = 1)]_vars

\* the first attempt's transaction was rolled back when the function
\* failed; the second attempt began a new one and committed it
C29_Witness ==
  /\ api \in TxApis
  /\ calls = 2
  /\ lastErr.kind = "db"
  /\ lastErr.Code = ErrCodeTransactionFailed
  /\ tx.state = "committed"
  /\ tx.commits = 1
  /\ tx.rollbacks = 0

\* C30: HealthCheck retries the ping and the query as one unit: every
\* attempt pings first, queries only after the ping of the same attempt
\* succeeded, every retry starts again from the ping, and the call returns
\* nil only after an attempt in which both succeeded.
C30_HealthCheckAsOneUnit ==
  /\ [](api = "HealthCheck" =>
          /\ health.pings = calls
          /\ health.queries <= health.pings
          /\ (pc = "h_query" => (health.ping = "ok" /\ health.query = "none"))
          /\ (health.query # "none" => health.ping = "ok")
          /\ ((pc = "done" /\ ret = Nil) => (health.ping = "ok" /\ health.query = "ok")))
  /\ [][health'.queries > health.queries
         => (pc = "h_query" /\ health.ping = "ok" /\ health'.pings = health.pings)]_vars
  /\ [][health'.pings > health.pings
         => (pc = "loop" /\ calls' = calls + 1 /\ health'.query = "none")]_vars

\* the query of the first attempt failed after its ping succeeded; the
\* second attempt pinged again, queried, and the call returned nil
C30_Witness ==
  /\ api = "HealthCheck"
  /\ pc = "done"
  /\ ret = Nil
  /\ calls = 2
  /\ health.pings = 2
  /\ health.queries = 2
  /\ lastErr.kind = "db"
  /\ lastErr.Code = ErrCodeQueryFailed

\* C25: for every Configuration the effective attempt count after the
\* defaults is at least 1, so a call of withRetry whose context is never
\* cancelled invokes the operation at least once.
C25_AtLeastOneAttempt ==
  (pc = "done" /\ ctx = "live")
    => (RetryConfigOf(config).Attempts >= 1 /\ calls >= 1)

\* C37: when the connect step of a reconnect fails, the handle's pool
\* reference and Migrator still refer to the old pool object, which is
\* closed, and nothing else has been installed (the reference is never
\* empty, the pool it refers to has its options applied); a later
\* ValidateConnection call, made with the server reachable, finds the closed
\* pool, reconnects once and returns nil on a new open pool.
C37_FailedConnectKeepsOldPool ==
  /\ [](/\ d_db \in 1..Len(pools)
        /\ pools[d_db].configured
        /\ ((api = "ValidateConnection" /\ pc = "returned" /\ ret # Nil /\ pings = 1)
              => (/\ reconnects = 1
                  /\ d_db = handle0.db
                  /\ d_migrator = d_db
                  /\ ~pools[d_db].open))
        /\ ((api = "ValidateConnection" /\ pc = "returned" /\ ~handle0.open /\ steady)
              => (/\ ret = Nil
                  /\ reconnects = 1
                  /\ d_db # handle0.db
                  /\ d_migrator = d_db
                  /\ pools[d_db].open)))
  /\ [][(pc = "v_connect" /\ pc' \notin {"v_connect", "v_install"})
         => (/\ ~serverUp
             /\ poolVars' = poolVars
             /\ d_migrator = d_db
             /\ newPool = 0
             /\ ~pools[d_db].open)]_vars

\* ValidateConnection has returned the error of a reconnect whose connect
\* step failed; the handle still refers to the old, closed pool
C37_Witness ==
  /\ api = "ValidateConnection"
  /\ pc = "returned"
  /\ pings = 1
  /\ reconnects = 1
  /\ GetErrorCode(ret) = ErrCodeConnectionFailed
  /\ d_db = handle0.db
  /\ d_migrator = d_db
  /\ ~pools[d_db].open

\* C38: the error WithValidation returns for a failed operation carries a
\* retriable category only if the retry engine treated the operation's
\* failure as retriable: a failure the engine gave up on as non-retriable
\* is not returned under a retriable category.
C38_ValidationKeepsRetriability ==
  (/\ api = "WithValidation"
   /\ pc = "done"
   /\ calls >= 1
   /\ lastErr # Nil
   /\ ~RetryDecision(lastErr))
    => (ret.kind = "db" /\ ~ret.Retriable /\ ~isErrorCodeRetriable(ret.Code))

\* C39: wrapping does not change the retry decision: for every raw error
\* the transient check accepts, it also accepts WrapError of that error,
\* whatever the category, operation and message.
C39_WrapKeepsRetryDecision ==
  (/\ built.wrap.applied
   /\ built.wrap.err.kind = "raw"
   /\ isRetriableError(built.wrap.err))
    => isRetriableError(built.err)

\* C40: WrapError of an input that is already a Structured Error, whatever
\* the category argument, returns that error with its category, Retriable
\* flag, cause, context and user message unchanged: only the operation and
\* the message may differ.
C40_WrapFrame ==
  (built.wrap.applied /\ built.wrap.err.kind = "db")
    => /\ built.err.kind = "db"
       /\ built.err.Code = built.wrap.err.Code
       /\ built.err.Retriable = built.wrap.err.Retriable
       /\ built.err.Underlying = built.wrap.err.Underlying
       /\ built.err.Context = built.wrap.err.Context
       /\ built.err.UserMessage = built.wrap.err.UserMessage
       /\ built.err = [built.wrap.err EXCEPT !.Operation = built.err.Operation,
                                             !.Message = built.err.Message]

\* WrapError was applied, with an operation and a message, to a Structured
\* Error that carried a cause and a context entry
C40_Witness ==
  /\ built.wrap.applied
  /\ built.wrap.err.kind = "db"
  /\ built.wrap.err.Context # {}
  /\ built.wrap.err.Underlying # Nil
  /\ built.wrap.operation = "op"
  /\ built.wrap.message = "failed"
  /\ built.err.Operation = "op"
  /\ built.err.Context = built.wrap.err.Context

\* C31: a call of withRetry with effective attempt count N has invoked the
\* operation at most N times and entered at most N-1 backoff sleeps when it
\* returns.
C31_BoundedWork ==
  (pc = "done" /\ api # "ValidateConnection")
    => /\ calls <= RetryConfigOf(config).Attempts
       /\ Len(sleeps) <= RetryConfigOf(config).Attempts - 1

\* no caller is inside a call
AllIdle == \A c \in Callers : callers[c].pc = "idle"

\* C34: no pool is leaked by reconnection: when the concurrent calls have
\* returned, every pool object opened by New or by a reconnect is the
\* handle's active pool or has been closed.
C34_NoPoolLeaked ==
  AllIdle => \A i \in 1..Len(pools) : i = d_db \/ ~pools[i].open

\* a reconnect is between its first and its last statement
InReconnect(c) ==
  callers[c].pc \in {"v_close", "v_connect", "v_configure", "v_install", "v_migrator"}

\* C36: whenever no reconnect is in progress on the handle, the Migrator is
\* bound to the pool object that is the handle's active pool.
C36_MigratorFollowsPool ==
  (\A c \in Callers : ~InReconnect(c)) => d_migrator = d_db

(***************************************************************************)
(* Concurrent ValidateConnection calls with the server reachable           *)
(* throughout: the pings fail only because the pool has been closed.       *)
(***************************************************************************)
\* DB.Close while no call is in progress
ConcClose ==
  /\ AllIdle
  /\ pools[d_db].open
  /\ pools' = [pools EXCEPT ![d_db].open = FALSE]
  /\ UNCHANGED <<serverUp, d_db, d_migrator, newPool, callers, concFrame>>

\* a caller enters ValidateConnection
ConcValidate(c) ==
  /\ ConcCall(c)
  /\ callers'[c].api = "ValidateConnection"

NextReconn ==
  \/ ConcClose
  \/ \E c \in Callers : ConcValidate(c)
  \/ \E c \in Callers : ConcPing(c)
  \/ \E c \in Callers : ConcReconnectClose(c)
  \/ \E c \in Callers : ConcConnect(c)
  \/ \E c \in Callers : ConcConfigure(c)
  \/ \E c \in Callers : ConcInstallDB(c)
  \/ \E c \in Callers : ConcInstallMigrator(c)
  \/ \E c \in Callers : ConcPing2(c)
  \/ \E c \in Callers : ConcReturn(c)

SpecReconn == InitConc /\ [][NextReconn]_vars

\* caller c has stored its new pool in d.db and has not yet made the ping
\* that follows its reconnect
JustInstalled(c) ==
  /\ callers[c].pc \in {"v_migrator", "v_ping2"}
  /\ callers[c].new = d_db

\* C35: with the server reachable throughout, every concurrent
\* ValidateConnection call returns nil, the active pool is open when all
\* have returned, and no reconnect closes the pool another caller's
\* reconnect has just installed and is about to ping.
C35_ConcurrentValidationSucceeds ==
  /\ [](\A c \in Callers : callers[c].pc = "done" => ~callers[c].failed)
  /\ []((\E c \in Callers :
            /\ callers[c].pc = "done"
            /\ \A o \in Callers : callers[o].pc \in {"idle", "done"})
         => pools[d_db].open)
  /\ [][\A c \in Callers :
          (JustInstalled(c) /\ pools[d_db].open) => pools'[d_db].open]_vars

(***************************************************************************)
(* The transactional methods with a caller's function that also uses the   *)
(* session's own Commit and Rollback (Transaction.Commit,                  *)
(* Transaction.Rollback) before it returns.                                *)
(***************************************************************************)
\* WithTransaction or WithTransactionIsolation is called
CallTransaction ==
  /\ Call
  /\ api' \in TxApis

\* fn(transaction) inserts some rows, commits them with transaction.Commit()
\* and returns; the attempt goes on as after any function
FnCommitsItself ==
  /\ pc = "fn"
  /\ Nil \in CommitResults
  /\ \E n \in 0..MaxWrites :
       /\ rows + n <= MaxRows
       /\ tx' = [tx EXCEPT !.writes = n, !.own = "committed"]
       /\ rows' = rows + n
  /\ fnErr' \in FnReturns
  /\ pc' = IF fnErr' = Nil THEN "commit" ELSE "rollback"
  /\ UNCHANGED <<restVars, envVars, poolVars, retryVars, panicVal, thrown, callVars>>

\* fn(transaction) inserts some rows, discards them with
\* transaction.Rollback() and returns
FnRollsBackItself ==
  /\ pc = "fn"
  /\ Nil \in RollbackResults
  /\ \E n \in 0..MaxWrites :
       /\ rows + n <= MaxRows
       /\ tx' = [tx EXCEPT !.writes = n, !.own = "rolledback"]
  /\ fnErr' \in FnReturns
  /\ pc' = IF fnErr' = Nil THEN "commit" ELSE "rollback"
  /\ UNCHANGED <<restVars, envVars, poolVars, retryVars, rows, panicVal, thrown, callVars>>

NextSession ==
  \/ ServerToggle
  \/ CtxCancel
  \/ CallTransaction
  \/ LoopExhausted
  \/ LoopCancelled
  \/ InvokeTransaction
  \/ AfterOpSuccess
  \/ AfterOpGiveUp
  \/ AfterOpSleep
  \/ AfterOpLast
  \/ SleepCancelled
  \/ SleepTimer
  \/ ValidatePingOk
  \/ ValidatePingFail
  \/ ReconnectClose
  \/ ReconnectConnectFail
  \/ ReconnectConnect
  \/ ReconnectInstallDB
  \/ ReconnectInstallMigrator
  \/ ValidatePing2Ok
  \/ ValidatePing2Fail
  \/ TxBegin
  \/ TxBeginFail
  \/ FnReturn
  \/ FnCommitsItself
  \/ FnRollsBackItself
  \/ FnPanic
  \/ TxRollback
  \/ TxCommit
  \/ TxCommitFail
  \/ TxPanicRollback
  \/ Return

\* the handle after New, under a Configuration of two attempts
InitSession ==
  /\ Init
  /\ config.RetryAttempts = 2

SpecSession == InitSession /\ [][NextSession]_vars

\* the writes of the attempt's transaction are committed, by the executor
\* or by the function itself
Committed(t) == t.state = "committed" \/ t.own = "committed"

\* C32: within one call at most one attempt's transaction is committed, and
\* once a commit has succeeded the caller's function is not invoked again:
\* an attempt whose transaction is committed is the last of the call.
C32_NoAttemptAfterCommit ==
  [][(api \in TxApis /\ Committed(tx) /\ pc = "afterop")
       => pc' \in {"afterop", "done"}]_vars

\* C33: the call returns a non-nil error only if the writes of the function
\* were not committed: whenever the transaction's writes are committed the
\* call returns nil.
C33_ErrorOnlyIfNotCommitted ==
  (api \in TxApis /\ pc = "done" /\ Committed(tx) /\ tx.writes >= 1) => ret = Nil

(***************************************************************************)
(* Long retry runs: withRetry around an arbitrary operation under a        *)
(* Configuration with many attempts, with a live context.                  *)
(***************************************************************************)
LongConfigs ==
  {[RetryAttempts |-> LongAttempts, RetryDelay |-> 0, RetryMaxDelay |-> 0],
   [RetryAttempts |-> LongAttempts, RetryDelay |-> 10, RetryMaxDelay |-> 15],
   [RetryAttempts |-> DefaultAttempts, RetryDelay |-> 10, RetryMaxDelay |-> 100]}

InitBackoff ==
  /\ config \in LongConfigs
  /\ HandleState
  /\ callers = << >>
  /\ built = NoBuilt

\* withRetry is called with a live context
CallWithRetry ==
  /\ pc = "idle"
  /\ api' = "withRetry"
  /\ ctx' = "live"
  /\ cancelAt' = ""
  /\ rows0' = rows
  /\ pc' = "loop"
  /\ UNCHANGED <<restVars, envVars, poolVars, retryVars, txVars>>

NextBackoff ==
  \/ CallWithRetry
  \/ InvokeOperation
  \/ AfterOpSuccess
  \/ AfterOpGiveUp
  \/ AfterOpSleep
  \/ AfterOpLast
  \/ SleepTimer
  \/ LoopExhausted
  \/ Return

SpecBackoff == InitBackoff /\ [][NextBackoff]_vars

\* min(base * 2^i, max) of the integers
RECURSIVE IdealBackoff(_, _, _)
IdealBackoff(base, max, i) ==
  IF i = 0 THEN Min(base, max)
  ELSE Min(2 * IdealBackoff(base, max, i - 1), max)

\* C24: the sleep after the failed attempt with zero-based index i equals
\* min(base_delay * 2^i, max_delay); the delays are non-decreasing in i,
\* never exceed max_delay, and the index restarts at 0 for every call.
C24_BackoffDelay ==
  LET rc == RetryConfigOf(config)
  IN /\ \A i \in 1..Len(sleeps) :
          /\ sleeps[i] = IdealBackoff(rc.Delay, rc.MaxDelay, i - 1)
          /\ sleeps[i] <= rc.MaxDelay
     /\ \A i \in 1..(Len(sleeps) - 1) : sleeps[i] <= sleeps[i + 1]

====
